---------------------------- MODULE Spec2Model ----------------------------
(***************************************************************************)
(* Verification model of the Digital-Image-Processing toolbox:             *)
(*   - the two batch inference runners (CCNet/tools/run_inference.py and   *)
(*     FasterRCNN/run_inference.py),                                       *)
(*   - the two weight fetchers (CCNet/scripts/download_weights.py and      *)
(*     FasterRCNN/download_model.py),                                      *)
(*   - load_model and parse_devices of CCNet/utils/pyt_utils.py,           *)
(*   - the image helpers of the segmentation runner (preprocess_image,     *)
(*     add_labels_to_image, build_palette / colorize_mask),                *)
(*   - register_image_folder_dataset (FasterRCNN/register_custom_dataset), *)
(*   - the video frame sampler (custom_dataset/sample.py),                 *)
(*   - the dehazers (fog-removal/dcp.py and fog-removal/defog_pipeline.py),*)
(*   - decode_labels and inv_preprocess of CCNet/utils/pyt_utils.py,       *)
(*   - the training driver (FasterRCNN/train_custom.py),                   *)
(*   - link_file, reduce_tensor and all_reduce_tensor of                   *)
(*     CCNet/utils/pyt_utils.py.                                           *)
(* Every program is a single-threaded batch process, except the reduction  *)
(* helpers, which run in every process of a group; each program has its    *)
(* own specification over its own variables, the other programs' variables *)
(* being held at their idle values.                                        *)
(***************************************************************************)
EXTENDS Integers, Sequences, FiniteSets, TLC

VARIABLES
    \* ---- batch inference runners ----
    runner,            \* "seg" (CCNet) or "det" (Faster R-CNN): the program run
    imageDirExists,    \* image_dir.exists()
    tree,              \* files under image_dir: indices into PathUniverse
    unreadable,        \* image files of the tree that cv2.imread cannot decode
    saveOverlay,       \* args.save_overlay (seg)
    saveLabeled,       \* args.save_labeled (seg)
    saveFormat,        \* args.save_format (det)
    datasetArg,        \* args.dataset (det)
    pc,                \* position of run_inference
    files,             \* result of list_images: sorted sequence of indices
    idx,               \* position of the for loop in files (1-based)
    deviceResolved,    \* resolve_device has run
    datasetRegistered, \* register_image_folder_dataset has registered (det)
    datasetName,       \* dataset_name after the try/except, or "none" (det)
    modelLoaded,       \* Seg_Model(...) / DefaultPredictor(cfg) constructed
    outputDirCreated,  \* output_dir.mkdir has run
    written,           \* output files on disk: set of [path, src]
    processed,         \* indices of the images whose outputs were all written
    skipped,           \* indices of the images skipped with a warning
    exitMsg,           \* SystemExit message / uncaught exception, or NoMsg
    \* ---- segmentation weight fetcher (download_weights.py) ----
    weightsDirs,       \* output directories that exist
    weightsDisk,       \* target file -> content id (0: the file is absent)
    transfers,         \* number of gdown.download calls started so far
    fetchCalls,        \* number of main() runs so far
    lastFetch,         \* arguments and outcome of the last main() run
    \* ---- detection weight fetcher (download_model.py) ----
    cacheDirExists,    \* ~/.cache/detectron2 exists
    cacheFiles,        \* model name -> "absent" | "partial" | "complete"
    dlCalls,           \* number of download_model calls so far
    lastDl,            \* arguments and outcome of the last download_model call
    \* ---- load_model (pyt_utils.py) ----
    modelState,        \* model.state_dict() of a fresh model: key -> shape
    ckptSource,        \* the caller's model_file now: [kind, top, nested]
    ckptAtStart,       \* the checkpoint as the caller made it: [kind, wrapped, entries]
    isRestore,         \* the is_restore argument
    loadResults,       \* outcome of each load_model call made so far
    loadPc,            \* position of the running load_model call
    stateDict,         \* the object the local name state_dict denotes
    loadHeap,          \* the mappings the running call has created
    boundKeys,         \* keys of state_dict at line 56
    \* ---- parse_devices (pyt_utils.py) ----
    inputDevices,      \* the input_devices string, as a sequence of characters
    deviceCount,       \* torch.cuda.device_count()
    parsed,            \* outcome of the parse_devices call, or NotParsed
    \* ---- preprocess_image (CCNet/tools/run_inference.py) ----
    rawShape,          \* raw.shape[:2] of the decoded image: <<h, w>>
    longSide,          \* the long_side argument
    preprocessed,      \* outcome of the preprocess_image call, or NotPreprocessed
    \* ---- add_labels_to_image (CCNet/tools/run_inference.py) ----
    imgWidth,          \* w of image.shape[:2]
    regions,           \* connected components of the mask, in ndimage.label order
    numClassNames,     \* len(class_names)
    maxLabels,         \* the max_labels_per_class argument
    minRegionSize,     \* the min_region_size argument
    drawnLabels,       \* the components a label was drawn for, in drawing order
    candidates,        \* components still to be considered, in loop order
    labelPositions,    \* label_positions: sequence of <<cx, cy>>
    labelPc,           \* position of add_labels_to_image
    \* ---- build_palette / colorize_mask (CCNet/tools/run_inference.py) ----
    paletteClasses,    \* the num_classes argument of build_palette
    maskPixels,        \* the mask: a sequence of class indices (bytes)
    palette,           \* the flat palette list (768 bytes), or << >>
    rendered,          \* the colorized mask: the RGB triple shown at each pixel
    palettePc,         \* position: "start", "built", "done"
    \* ---- register_image_folder_dataset (register_custom_dataset.py) ----
    dsName,            \* the name argument
    dsDirExists,       \* image_dir.exists()
    dsTree,            \* files under image_dir: indices into PathUniverse
    dsUnreadable,      \* files of dsTree that cv2.imread cannot decode
    catalog,           \* DatasetCatalog: names registered -> image_files
    dsRecords,         \* result of DatasetCatalog.get(name), or << >>
    dsPc,              \* position of the registration program
    \* ---- extract_frames (custom_dataset/sample.py) ----
    videoOpens,        \* cap.isOpened() after cv2.VideoCapture(video_path)
    videoFps,          \* cap.get(cv2.CAP_PROP_FPS), in tenths of a frame/second
    intervalSec,       \* the interval_sec argument
    videoFrames,       \* number of frames cap.read() can deliver
    capOpen,           \* the capture holds the video (not yet released)
    frameCount,        \* frame_count
    savedCount,        \* saved_count
    savedFrames,       \* files written: sequence of [name, frame]
    samplerPc,         \* position of extract_frames
    \* ---- DarkChannelPrior.dehaze (fog-removal/dcp.py) ----
    grayValue,         \* the value of every channel of every pixel (uniform image)
    pixelCount,        \* h * w of the image
    atmLight,          \* A[0, c], the same for the three channels: [val, err]
    transmission,      \* the refined transmission t, the same at every pixel
    recovered,         \* the value of every channel of every output pixel, or -1
    dcpPc,             \* position of dehaze
    \* ---- KimDefogPipeline.dehaze, fusion step (fog-removal/defog_pipeline.py) ----
    fusionWeight,      \* self.fusion_weight, in quarters
    vLength,           \* number of pixels of a row of the v channel
    vClahe,            \* a row of v_clahe (bytes)
    vDwt,              \* the same row of v_dwt before the crop (bytes)
    vFused,            \* the same row of v_fused, or << >>
    \* ---- decode_labels / decode_predictions (pyt_utils.py) ----
    decodeFn,          \* "decode_labels" or "decode_predictions"
    maskBatch,         \* the batch of masks (for decode_predictions: the arg-max
                       \* of preds): sequence of sequences of class indices
    decodeImages,      \* the num_images argument
    decodeClasses,     \* the num_classes argument
    decoded,           \* outcome of the decode_labels call, or NotDecoded
    \* ---- inv_preprocess (pyt_utils.py) ----
    imgsBatch,         \* the batch of images: sequence of sequences of channel
                       \* values, in halves
    invImages,         \* the num_images argument
    imgMean,           \* the img_mean vector, in halves
    restored,          \* outcome of the inv_preprocess call, or NotRestored
    \* ---- training driver (FasterRCNN/train_custom.py) ----
    valJson,           \* args.val_json: "None", "" or "given"
    valImages,         \* args.val_images: "None", "" or "given"
    configFile,        \* whether --config-file was given
    weightsGiven,      \* whether --weights was given
    maxIter,           \* args.max_iter
    argsAttrs,         \* the dataset-name attributes main has set on args
    datasetCatalog,    \* the names registered in DatasetCatalog
    cfg,               \* the configuration setup_config returned, or NoCfg
    trainOutputDir,    \* whether cfg.OUTPUT_DIR has been created
    trainPc,           \* position of main
    \* ---- link_file (pyt_utils.py) ----
    linkFs,            \* the file system: target path -> what is there
    linkCalls,         \* number of link_file and ensure_dir calls made
    lastLink,          \* the last call: arguments, what the target was, outcome
    \* ---- reduce_tensor / all_reduce_tensor (pyt_utils.py) ----
    reduceFn,          \* "reduce_tensor" or "all_reduce_tensor", called on every rank
    reduceDst,         \* the dst argument
    worldSize,         \* the world_size argument
    reduceNorm,        \* the norm argument
    argAtCall,         \* rank -> value of the caller's tensor when the call began
    tensors,           \* rank -> [arg: the caller's tensor, clone: the clone]
    localRef,          \* rank -> the tensor the local name "tensor" denotes
    contributed,       \* rank -> the value the rank gave to the collective
    returnedRef,       \* rank -> the tensor returned, or "none"
    rankPc             \* rank -> position of the call

runVars == <<runner, imageDirExists, tree, unreadable, saveOverlay, saveLabeled,
             saveFormat, datasetArg, pc, files, idx, deviceResolved,
             datasetRegistered, datasetName,
             modelLoaded, outputDirCreated, written, processed, skipped, exitMsg>>

fetchVars == <<weightsDirs, weightsDisk, transfers, fetchCalls, lastFetch>>

dlVars == <<cacheDirExists, cacheFiles, dlCalls, lastDl>>

loadVars == <<modelState, ckptSource, ckptAtStart, isRestore, loadResults,
              loadPc, stateDict, loadHeap, boundKeys>>

parseVars == <<inputDevices, deviceCount, parsed>>

preVars == <<rawShape, longSide, preprocessed>>

labelVars == <<imgWidth, regions, numClassNames, maxLabels, minRegionSize,
               candidates, labelPositions, drawnLabels, labelPc>>

paletteVars == <<paletteClasses, maskPixels, palette, rendered, palettePc>>

dsVars == <<dsName, dsDirExists, dsTree, dsUnreadable, catalog, dsRecords, dsPc>>

samplerVars == <<videoOpens, videoFps, intervalSec, videoFrames, capOpen,
                 frameCount, savedCount, savedFrames, samplerPc>>

dcpVars == <<grayValue, pixelCount, atmLight, transmission, recovered, dcpPc>>

fusionVars == <<fusionWeight, vLength, vClahe, vDwt, vFused>>

decodeVars == <<decodeFn, maskBatch, decodeImages, decodeClasses, decoded>>

invVars == <<imgsBatch, invImages, imgMean, restored>>

trainVars == <<valJson, valImages, configFile, weightsGiven, maxIter, argsAttrs,
               datasetCatalog, cfg, trainOutputDir, trainPc>>

linkVars == <<linkFs, linkCalls, lastLink>>

reduceVars == <<reduceFn, reduceDst, worldSize, reduceNorm, argAtCall, tensors,
                localRef, contributed, returnedRef, rankPc>>

\* The runners, the fetchers, load_model and parse_devices.
coreVars == <<runVars, fetchVars, dlVars, loadVars, parseVars>>

\* The image helpers, the dataset registration, the sampler and the dehazers.
imagingVars == <<preVars, labelVars, paletteVars, dsVars, samplerVars, dcpVars,
                 fusionVars, decodeVars, invVars>>

\* The training driver and the small helpers of pyt_utils.py.
utilVars == <<trainVars, linkVars, reduceVars>>

vars == <<coreVars, imagingVars, utilVars>>

\* The variables of the programs other than the one that runs.
notRunVars == <<fetchVars, dlVars, loadVars, parseVars, imagingVars, utilVars>>

notFetchVars == <<runVars, dlVars, loadVars, parseVars, imagingVars, utilVars>>

notDlVars == <<runVars, fetchVars, loadVars, parseVars, imagingVars, utilVars>>

notLoadVars == <<runVars, fetchVars, dlVars, parseVars, imagingVars, utilVars>>

notParseVars == <<runVars, fetchVars, dlVars, loadVars, imagingVars, utilVars>>

notPreVars == <<coreVars, labelVars, paletteVars, dsVars, samplerVars, dcpVars,
                fusionVars, decodeVars, invVars, utilVars>>

notLabelVars == <<coreVars, preVars, paletteVars, dsVars, samplerVars, dcpVars,
                  fusionVars, decodeVars, invVars, utilVars>>

notPaletteVars == <<coreVars, preVars, labelVars, dsVars, samplerVars, dcpVars,
                    fusionVars, decodeVars, invVars, utilVars>>

notDsVars == <<coreVars, preVars, labelVars, paletteVars, samplerVars, dcpVars,
               fusionVars, decodeVars, invVars, utilVars>>

notSamplerVars == <<coreVars, preVars, labelVars, paletteVars, dsVars, dcpVars,
                    fusionVars, decodeVars, invVars, utilVars>>

notDcpVars == <<coreVars, preVars, labelVars, paletteVars, dsVars, samplerVars,
                fusionVars, decodeVars, invVars, utilVars>>

notFusionVars == <<coreVars, preVars, labelVars, paletteVars, dsVars, samplerVars,
                   dcpVars, decodeVars, invVars, utilVars>>

notDecodeVars == <<coreVars, preVars, labelVars, paletteVars, dsVars, samplerVars,
                   dcpVars, fusionVars, invVars, utilVars>>

notTrainVars == <<coreVars, imagingVars, linkVars, reduceVars>>

notLinkVars == <<coreVars, imagingVars, trainVars, reduceVars>>

notReduceVars == <<coreVars, imagingVars, trainVars, linkVars>>

notInvVars == <<coreVars, preVars, labelVars, paletteVars, dsVars, samplerVars,
                dcpVars, fusionVars, decodeVars, utilVars>>

(***************************************************************************)
(* Batch inference runners.                                                *)
(***************************************************************************)

\* Largest number of files placed under the image directory.
MaxTree == 3

\* The image directory given on the command line (args.image_dir).
ImageDir == "images"

\* VALID_EXTS of both runners.
VALID_EXTS == {".jpg", ".jpeg", ".png", ".bmp", ".tif", ".tiff"}

\* str.lower() on the suffixes that occur in PathUniverse.
Lower(s) == CASE s = ".PNG" -> ".png"
              [] s = ".JPG" -> ".jpg"
              [] OTHER -> s

\* The paths that may exist under the image directory, relative to it, listed
\* in the order sorted() gives pathlib paths (part by part, as strings):
\* a/p.jpg < a/q.PNG < b/p.jpg < notes.txt < p.jpg.
\* dir is the subdirectory ("" for the image directory itself).
PathUniverse ==
    << [dir |-> "a", stem |-> "p",     suffix |-> ".jpg"],
       [dir |-> "a", stem |-> "q",     suffix |-> ".PNG"],
       [dir |-> "b", stem |-> "p",     suffix |-> ".jpg"],
       [dir |-> "",  stem |-> "notes", suffix |-> ".txt"],
       [dir |-> "",  stem |-> "p",     suffix |-> ".jpg"] >>

PathIds == 1..Len(PathUniverse)

\* p.suffix.lower() in VALID_EXTS and p.is_file()
IsImage(i) == Lower(PathUniverse[i].suffix) \in VALID_EXTS

\* The increasing sequence of the members of a set of path indices (sorted()).
RECURSIVE SortedSeq(_)
SortedSeq(S) ==
    IF S = {} THEN << >>
    ELSE LET m == CHOOSE x \in S : \A y \in S : x <= y
         IN  <<m>> \o SortedSeq(S \ {m})

\* list_images without the extension filter.
list_images_unfiltered(t) == SortedSeq(t)

\* list_images(folder): the image files under the folder, recursively, sorted.
list_images(t) == SortedSeq({i \in t : IsImage(i)})

\* Values of --dataset of the detection runner: the default and the empty
\* string.
DatasetArgs == {"coco", ""}

\* dataset_name = f"custom_inference_{args.dataset}"
DatasetName(dataset) == "custom_inference_" \o dataset

\* Supported image extensions of register_image_folder_dataset (its own set).
valid_exts == {".jpg", ".jpeg", ".png", ".bmp", ".tif", ".tiff"}

\* image_files of register_image_folder_dataset: the files of the tree with
\* a supported extension, sorted (the strings str(p) of the paths of
\* PathUniverse sort as the paths do).
image_files(t) == SortedSeq({i \in t : Lower(PathUniverse[i].suffix) \in valid_exts})

NoMsg == [kind |-> "none", path |-> ""]

\* Path of an output file, relative to the output directory: the code builds
\* output_dir / f"{stem}_<kind>.<ext>" with stem = rel_path.stem, which is the
\* stem of the last path component only.
SegOutputPath(i, kind) ==
    [dir |-> "", name |-> PathUniverse[i].stem, kind |-> kind, suffix |-> ".png"]

DetOutputPath(i, fmt) ==
    [dir |-> "", name |-> PathUniverse[i].stem, kind |-> "detections",
     suffix |-> fmt]

\* Writing a file replaces whatever was stored under the same path.
WriteFile(disk, path, src) ==
    {f \in disk : f.path # path} \cup {[path |-> path, src |-> src]}

\* The output kinds the segmentation runner writes for one image.
SegKinds(overlay, labeled) ==
    {"mask"} \cup (IF overlay THEN {"overlay"} ELSE {})
             \cup (IF labeled THEN {"labeled"} ELSE {})

RECURSIVE WriteAll(_, _, _)
WriteAll(disk, i, kinds) ==
    IF kinds = {} THEN disk
    ELSE LET k == CHOOSE x \in kinds : TRUE
         IN  WriteAll(WriteFile(disk, SegOutputPath(i, k), i), i, kinds \ {k})

RunInit ==
    /\ runner \in {"seg", "det"}
    /\ imageDirExists \in BOOLEAN
    /\ tree \in {t \in SUBSET PathIds : Cardinality(t) <= MaxTree}
    /\ imageDirExists = FALSE => tree = {}
    /\ unreadable \in SUBSET {i \in tree : IsImage(i)}
    /\ saveOverlay \in BOOLEAN
    /\ saveLabeled \in BOOLEAN
    /\ saveFormat \in {".png", ".jpg"}
    /\ datasetArg \in DatasetArgs
    /\ runner = "det" => saveOverlay = FALSE /\ saveLabeled = FALSE
    /\ runner = "seg" => saveFormat = ".png" /\ datasetArg = "coco"
    /\ pc = "start"
    /\ files = << >>
    /\ idx = 1
    /\ deviceResolved = FALSE
    /\ datasetRegistered = FALSE
    /\ datasetName = "none"
    /\ modelLoaded = FALSE
    /\ outputDirCreated = FALSE
    /\ written = {}
    /\ processed = {}
    /\ skipped = {}
    /\ exitMsg = NoMsg

RunIdle ==
    /\ runner = "seg"
    /\ imageDirExists = FALSE
    /\ tree = {}
    /\ unreadable = {}
    /\ saveOverlay = FALSE
    /\ saveLabeled = FALSE
    /\ saveFormat = ".png"
    /\ datasetArg = "coco"
    /\ pc = "idle"
    /\ files = << >>
    /\ idx = 1
    /\ deviceResolved = FALSE
    /\ datasetRegistered = FALSE
    /\ datasetName = "none"
    /\ modelLoaded = FALSE
    /\ outputDirCreated = FALSE
    /\ written = {}
    /\ processed = {}
    /\ skipped = {}
    /\ exitMsg = NoMsg

inputVars == <<runner, imageDirExists, tree, unreadable, saveOverlay,
               saveLabeled, saveFormat, datasetArg>>

\* run_inference, both runners: "if not image_dir.exists(): raise SystemExit".
CheckImageDir ==
    /\ pc = "start"
    /\ IF imageDirExists
       THEN /\ pc' = "list"
            /\ exitMsg' = exitMsg
       ELSE /\ pc' = "exit"
            /\ exitMsg' = [kind |-> "dir_not_found", path |-> ImageDir]
    /\ UNCHANGED <<inputVars, files, idx, deviceResolved,
                   datasetRegistered, datasetName,
                   modelLoaded, outputDirCreated, written, processed, skipped>>
    /\ UNCHANGED notRunVars

\* run_inference, both runners: files = list_images(image_dir);
\* "if not files: raise SystemExit".
ListImages ==
    /\ pc = "list"
    /\ files' = list_images(tree)
    /\ IF files' # << >>
       THEN /\ pc' = "device"
            /\ exitMsg' = exitMsg
       ELSE /\ pc' = "exit"
            /\ exitMsg' = [kind |-> "no_images", path |-> ImageDir]
    /\ UNCHANGED <<inputVars, idx, deviceResolved,
                   datasetRegistered, datasetName,
                   modelLoaded, outputDirCreated, written, processed, skipped>>
    /\ UNCHANGED notRunVars

\* device = resolve_device(args.device)
ResolveDevice ==
    /\ pc = "device"
    /\ deviceResolved' = TRUE
    /\ pc' = IF runner = "seg" THEN "model" ELSE "register"
    /\ UNCHANGED <<inputVars, files, idx,
                   datasetRegistered, datasetName, modelLoaded,
                   outputDirCreated, written, processed, skipped, exitMsg>>
    /\ UNCHANGED notRunVars

\* Segmentation: model = Seg_Model(...); model.to(device); model.eval().
\* The constructor reads the checkpoint and may raise.
SegLoadModel ==
    /\ pc = "model"
    /\ runner = "seg"
    /\ \E ok \in BOOLEAN :
         IF ok
         THEN /\ modelLoaded' = TRUE
              /\ pc' = "mkdir"
              /\ exitMsg' = exitMsg
         ELSE /\ modelLoaded' = FALSE
              /\ pc' = "crashed"
              /\ exitMsg' = [kind |-> "model_error", path |-> ""]
    /\ UNCHANGED <<inputVars, files, idx, deviceResolved,
                   datasetRegistered, datasetName,
                   outputDirCreated, written, processed, skipped>>
    /\ UNCHANGED notRunVars

\* Detection, lines 239-248: register_image_folder_dataset(dataset_name,
\* image_dir) inside try/except; when it raises (absent directory, no image
\* file) dataset_name falls back to args.dataset.  The directory and its
\* images were validated just before.
DetRegisterDataset ==
    /\ pc = "register"
    /\ runner = "det"
    /\ LET raised == ~imageDirExists \/ image_files(tree) = << >> IN
       /\ datasetRegistered' = ~raised
       /\ datasetName' = IF raised THEN datasetArg ELSE DatasetName(datasetArg)
    /\ pc' = "model"
    /\ UNCHANGED <<inputVars, files, idx, deviceResolved, modelLoaded,
                   outputDirCreated, written, processed, skipped, exitMsg>>
    /\ UNCHANGED notRunVars

\* Detection: cfg, predictor = setup_config(...); any exception becomes
\* SystemExit("Failed to setup model: ...").
DetSetupConfig ==
    /\ pc = "model"
    /\ runner = "det"
    /\ \E ok \in BOOLEAN :
         IF ok
         THEN /\ modelLoaded' = TRUE
              /\ pc' = "mkdir"
              /\ exitMsg' = exitMsg
         ELSE /\ modelLoaded' = FALSE
              /\ pc' = "exit"
              /\ exitMsg' = [kind |-> "setup_failed", path |-> ""]
    /\ UNCHANGED <<inputVars, files, idx, deviceResolved,
                   datasetRegistered, datasetName,
                   outputDirCreated, written, processed, skipped>>
    /\ UNCHANGED notRunVars

\* output_dir.mkdir(parents=True, exist_ok=True)
MakeOutputDir ==
    /\ pc = "mkdir"
    /\ outputDirCreated' = TRUE
    /\ pc' = "loop"
    /\ UNCHANGED <<inputVars, files, idx, deviceResolved,
                   datasetRegistered, datasetName,
                   modelLoaded, written, processed, skipped, exitMsg>>
    /\ UNCHANGED notRunVars

\* Segmentation, one iteration of the for loop: preprocess_image raises
\* RuntimeError when cv2.imread returns None, and run_inference does not
\* catch it; otherwise the mask, and the overlay and labeled image when asked
\* for, are saved.
SegProcessImage ==
    /\ pc = "loop"
    /\ runner = "seg"
    /\ idx <= Len(files)
    /\ LET i == files[idx] IN
         IF i \in unreadable
         THEN /\ pc' = "crashed"
              /\ exitMsg' = [kind |-> "unable_to_read", path |-> ""]
              /\ UNCHANGED <<idx, written, processed>>
         ELSE /\ written' = WriteAll(written, i, SegKinds(saveOverlay, saveLabeled))
              /\ processed' = processed \cup {i}
              /\ idx' = idx + 1
              /\ UNCHANGED <<pc, exitMsg>>
    /\ UNCHANGED <<inputVars, files, deviceResolved,
                   datasetRegistered, datasetName,
                   modelLoaded, outputDirCreated, skipped>>
    /\ UNCHANGED notRunVars

\* Detection, one iteration of the for loop: an image cv2.imread cannot decode
\* is reported and skipped (continue); otherwise the visualisation is written
\* to output_dir / f"{stem}_detections.{save_format}".
DetProcessImage ==
    /\ pc = "loop"
    /\ runner = "det"
    /\ idx <= Len(files)
    /\ LET i == files[idx] IN
         IF i \in unreadable
         THEN /\ skipped' = skipped \cup {i}
              /\ UNCHANGED <<written, processed>>
         ELSE /\ written' = WriteFile(written, DetOutputPath(i, saveFormat), i)
              /\ processed' = processed \cup {i}
              /\ UNCHANGED skipped
    /\ idx' = idx + 1
    /\ UNCHANGED <<inputVars, pc, files, deviceResolved,
                   datasetRegistered, datasetName,
                   modelLoaded, outputDirCreated, exitMsg>>
    /\ UNCHANGED notRunVars

\* End of the for loop: the closing message is printed and the run ends.
FinishRun ==
    /\ pc = "loop"
    /\ idx > Len(files)
    /\ pc' = "done"
    /\ UNCHANGED <<inputVars, files, idx, deviceResolved,
                   datasetRegistered, datasetName,
                   modelLoaded, outputDirCreated, written, processed, skipped,
                   exitMsg>>
    /\ UNCHANGED notRunVars

RunNext ==
    \/ CheckImageDir
    \/ ListImages
    \/ ResolveDevice
    \/ SegLoadModel
    \/ DetRegisterDataset
    \/ DetSetupConfig
    \/ MakeOutputDir
    \/ SegProcessImage
    \/ DetProcessImage
    \/ FinishRun

(***************************************************************************)
(* Segmentation weight fetcher: CCNet/scripts/download_weights.py.         *)
(***************************************************************************)

\* Largest number of runs of the fetcher in one behaviour.
MaxFetchCalls == 3

\* MODEL_INDEX: model variant -> output filename.
MODEL_INDEX ==
    [r1      |-> "ccnet_cityscapes_r1.pth",
     r2      |-> "ccnet_cityscapes_r2.pth",
     r2_ohem |-> "ccnet_cityscapes_r2_ohem.pth"]

ModelVariants == DOMAIN MODEL_INDEX

\* Values of --output-dir: the default and one other directory.
OutputDirs == {"weights", "alt"}

\* output_file = output_dir / info["filename"]
OutputFile(dir, variant) == <<dir, MODEL_INDEX[variant]>>

Targets == {OutputFile(d, m) : d \in OutputDirs, m \in ModelVariants}

NoFetch == [model |-> "none", dir |-> "none", force |-> FALSE, outcome |-> "none"]

FetchInit ==
    /\ weightsDirs = {}
    /\ weightsDisk = [t \in Targets |-> 0]
    /\ transfers = 0
    /\ fetchCalls = 0
    /\ lastFetch = NoFetch

FetchIdle == FetchInit

\* The reuse test with the force flag read the wrong way round.
ReuseExisting_forced(exists, force) == exists /\ force

\* "if output_file.exists() and not args.force": reuse, no transfer.
ReuseExisting(exists, force) == exists /\ ~force

\* main(): one run of the fetcher.  gdown.download either stores the
\* downloaded bytes under the target (overwriting it) or fails and leaves
\* the target as it was.
FetchMain(variant, dir, force, ok) ==
    /\ fetchCalls < MaxFetchCalls
    /\ fetchCalls' = fetchCalls + 1
    /\ weightsDirs' = weightsDirs \cup {dir}
    /\ LET target == OutputFile(dir, variant) IN
         IF ReuseExisting(weightsDisk[target] # 0, force)
         THEN /\ lastFetch' = [model |-> variant, dir |-> dir, force |-> force,
                               outcome |-> "reused"]
              /\ UNCHANGED <<weightsDisk, transfers>>
         ELSE /\ transfers' = transfers + 1
              /\ weightsDisk' = IF ok
                                THEN [weightsDisk EXCEPT ![target] = transfers + 1]
                                ELSE weightsDisk
              /\ lastFetch' = [model |-> variant, dir |-> dir, force |-> force,
                               outcome |-> IF ok THEN "downloaded" ELSE "failed"]
    /\ UNCHANGED notFetchVars

FetchNext ==
    \E variant \in ModelVariants, dir \in OutputDirs, force \in BOOLEAN,
       ok \in BOOLEAN : FetchMain(variant, dir, force, ok)

(***************************************************************************)
(* Detection weight fetcher: FasterRCNN/download_model.py.                 *)
(***************************************************************************)

\* Largest number of download_model calls in one behaviour.
MaxDlCalls == 3

\* Model names given to download_model: two the model zoo knows and one it
\* does not (model_zoo.get_config_file raises for it).
DlModels == {"faster_rcnn_R_50_FPN_3x", "faster_rcnn_R_101_FPN_3x", "no_such_model"}

ZooModels == {"faster_rcnn_R_50_FPN_3x", "faster_rcnn_R_101_FPN_3x"}

\* Where a call can fail: configuration lookup, URL resolution, creation of
\* the cache directory, the transfer before any byte is stored, the transfer
\* part-way (urlretrieve writes straight to output_path).
DlFaults == {"none", "config", "url", "mkdir", "transfer_open", "transfer_partial"}

NoDl == [model |-> "none", failure |-> "none", result |-> "none",
         errorPrinted |-> FALSE, transferred |-> FALSE]

DlInit ==
    /\ cacheDirExists \in BOOLEAN
    /\ cacheFiles = [m \in DlModels |-> "absent"]
    /\ dlCalls = 0
    /\ lastDl = NoDl

DlIdle ==
    /\ cacheDirExists = FALSE
    /\ cacheFiles = [m \in DlModels |-> "absent"]
    /\ dlCalls = 0
    /\ lastDl = NoDl

\* A try block that ends before the transfer.
TryCovers_noTransfer(stage) == stage \in {"config", "url", "mkdir"}

\* The stages whose exceptions the try ... except Exception of
\* download_model catches: the whole body is inside the try.
TryCovers(stage) ==
    stage \in {"config", "url", "mkdir", "transfer_open", "transfer_partial"}

\* The first stage that fails in a call for model m under injected fault f:
\* a model the zoo does not know fails at the configuration lookup; a
\* transfer fault only strikes when a transfer is made.
FailingStage(m, f, cached) ==
    IF f = "config" \/ m \notin ZooModels THEN "config"
    ELSE IF f \in {"url", "mkdir"} THEN f
    ELSE IF f \in {"transfer_open", "transfer_partial"} /\ ~cached THEN f
    ELSE "none"

\* download_model(model_name): one call.
DownloadModel(m, f) ==
    /\ dlCalls < MaxDlCalls
    /\ dlCalls' = dlCalls + 1
    /\ LET cached == cacheFiles[m] # "absent"
           stage  == FailingStage(m, f, cached)
           reachedMkdir == stage \notin {"config", "url", "mkdir"}
           transfer == reachedMkdir /\ ~cached
       IN
         /\ cacheDirExists' = (cacheDirExists \/ reachedMkdir)
         /\ cacheFiles' =
               IF ~transfer \/ stage = "transfer_open" THEN cacheFiles
               ELSE IF stage = "transfer_partial"
                    THEN [cacheFiles EXCEPT ![m] = "partial"]
                    ELSE [cacheFiles EXCEPT ![m] = "complete"]
         /\ lastDl' =
               [model |-> m,
                failure |-> stage,
                result |-> IF stage = "none" THEN "path"
                           ELSE IF TryCovers(stage) THEN "None"
                           ELSE "raised",
                errorPrinted |-> (stage # "none" /\ TryCovers(stage)),
                transferred |-> (transfer /\ stage = "none")]
    /\ UNCHANGED notDlVars

DlNext == \E m \in DlModels, f \in DlFaults : DownloadModel(m, f)

(***************************************************************************)
(* load_model: CCNet/utils/pyt_utils.py.                                   *)
(* A key "a.b.c" is the sequence <<"a", "b", "c">> of its dot-separated    *)
(* segments (k.split('.') and '.'.join are inverse on such keys).  A shape *)
(* is a small integer; a checkpoint entry is [key, shape, val] where val   *)
(* identifies the tensor.  A mapping is an object: a name denotes it by a  *)
(* reference, two names may denote the same mapping, and a write goes to   *)
(* the mapping the name denotes.                                           *)
(***************************************************************************)

\* Largest number of entries of a checkpoint mapping.
MaxCkpt == 2

\* Number of load_model calls made with the same checkpoint, each on a fresh
\* model.
MaxLoads == 2

\* Shape given to a value that is a nested mapping and has no tensor shape.
NestedShape == -1

\* Model namespaces (model.state_dict(): key -> shape).
\*  - SeqBnModel: BatchNorm layers are Sequential fallbacks ("bn1.0.weight");
\*  - PlainModel: BatchNorm layers carry their parameters directly;
\*  - DistModel:  the keys of a DataParallel-wrapped model ("module." prefix);
\*  - MixedModel: a namespace in which a key and its rewrites coexist.
SeqBnModel ==
    (<< "conv1", "weight" >> :> 1) @@
    (<< "bn1", "0", "weight" >> :> 1) @@
    (<< "bn1", "0", "num_batches_tracked" >> :> 0) @@
    (<< "layer1", "0", "bn1", "0", "weight" >> :> 2) @@
    (<< "head", "1", "0", "weight" >> :> 2) @@
    (<< "fc", "weight" >> :> 2)

PlainModel ==
    (<< "conv1", "weight" >> :> 1) @@
    (<< "bn1", "weight" >> :> 1) @@
    (<< "head", "1", "weight" >> :> 2) @@
    (<< "fc", "weight" >> :> 2)

DistModel ==
    (<< "module", "conv1", "weight" >> :> 1) @@
    (<< "module", "bn1", "0", "weight" >> :> 1) @@
    (<< "module", "fc", "weight" >> :> 2)

MixedModel ==
    (<< "bn1", "weight" >> :> 1) @@
    (<< "bn1", "0", "weight" >> :> 1) @@
    (<< "bn1", "0", "bias", "0", "weight" >> :> 2) @@
    (<< "bn1", "bias", "0", "0", "weight" >> :> 2)

ModelNamespaces == {SeqBnModel, PlainModel, DistModel, MixedModel}

\* Keys a checkpoint may hold.
CkptKeys ==
    { << "conv1", "weight" >>,
      << "bn1", "weight" >>,
      << "bn1", "0", "weight" >>,
      << "layer1", "0", "bn1", "weight" >>,
      << "head", "1", "weight" >>,
      << "fc", "weight" >>,
      << "aux", "weight" >>,
      << "bn1", "bias", "0", "weight" >> }

CkptShapes == {1, 2}

\* Sequences of at most n (key, shape) pairs with pairwise distinct keys.
RECURSIVE KeyShapeSeqs(_)
KeyShapeSeqs(n) ==
    IF n = 0 THEN { << >> }
    ELSE LET shorter == KeyShapeSeqs(n - 1) IN
         shorter \cup
         { Append(q, [key |-> k, shape |-> sh]) :
             q \in {x \in shorter : Len(x) = n - 1},
             k \in CkptKeys, sh \in CkptShapes }

DistinctKeys(q) == \A i, j \in 1..Len(q) : i # j => q[i].key # q[j].key

\* The tensor of entry i is identified by i.
WithTensors(q) ==
    [i \in 1..Len(q) |-> [key |-> q[i].key, shape |-> q[i].shape, val |-> i]]

CkptEntries == { WithTensors(q) : q \in {x \in KeyShapeSeqs(MaxCkpt) : DistinctKeys(x)} }

\* The top-level mapping of a checkpoint: the entries themselves, or a
\* wrapper holding them under the key "model".
TopLevel(src) ==
    IF src.wrapped
    THEN << [key |-> << "model" >>, shape |-> NestedShape, val |-> 0] >>
    ELSE src.entries

\* The objects of the caller's checkpoint (for a path, what the file
\* holds): the top-level mapping and the mapping nested under "model".
CallerObjects(src) ==
    [kind   |-> src.kind,
     top    |-> TopLevel(src),
     nested |-> IF src.wrapped THEN src.entries ELSE << >>]

\* The mappings a call creates: the one torch.load returns, the one nested
\* in it, and new_state_dict.  A mapping not created yet is empty.
LocalObjects == {"loaded", "loaded.model", "new_state_dict"}

NoObjects == [o \in LocalObjects |-> << >>]

LoadInit ==
    /\ modelState \in ModelNamespaces
    /\ ckptAtStart \in [kind : {"path", "mapping"}, wrapped : BOOLEAN,
                        entries : CkptEntries]
    /\ ckptSource = CallerObjects(ckptAtStart)
    /\ isRestore \in BOOLEAN
    /\ loadResults = << >>
    /\ loadPc = "call"
    /\ stateDict = "none"
    /\ loadHeap = NoObjects
    /\ boundKeys = {}

LoadIdle ==
    /\ modelState = PlainModel
    /\ ckptAtStart = [kind |-> "mapping", wrapped |-> FALSE, entries |-> << >>]
    /\ ckptSource = CallerObjects(ckptAtStart)
    /\ isRestore = FALSE
    /\ loadResults = << >>
    /\ loadPc = "idle"
    /\ stateDict = "none"
    /\ loadHeap = NoObjects
    /\ boundKeys = {}

HasModelKey(top) == \E i \in 1..Len(top) : top[i].key = << "model" >>

\* The mapping the object reference ref denotes: "model_file" is the
\* caller's mapping, the other references are mappings of the call.
Content(src, heap, ref) ==
    IF ref = "model_file" THEN src.top
    ELSE IF ref = "model_file.model" THEN src.nested
    ELSE heap[ref]

\* The caller's objects and the call's objects after the mapping that ref
\* denotes has been given the content c.
CallerAfterStore(src, ref, c) ==
    IF ref = "model_file" THEN [src EXCEPT !.top = c]
    ELSE IF ref = "model_file.model" THEN [src EXCEPT !.nested = c]
    ELSE src

HeapAfterStore(heap, ref, c) ==
    IF ref \in LocalObjects THEN [heap EXCEPT ![ref] = c] ELSE heap

\* A load that never unwraps.
SourceStateDict_neverUnwraps(src) ==
    IF src.kind = "path" THEN "loaded" ELSE "model_file"

\* Lines 49-55: the object state_dict denotes.  A path is read with
\* torch.load and, if the loaded mapping has the key 'model', state_dict is
\* rebound to state_dict['model']; a mapping is used as given, so that
\* state_dict is another name of the caller's object.
SourceStateDict(src) ==
    IF src.kind = "path"
    THEN IF HasModelKey(src.top) THEN "loaded.model" ELSE "loaded"
    ELSE "model_file"

\* Lines 58-63: with is_restore, every key gets the prefix 'module.'.
RestoreKeys(sd, restore) ==
    IF restore
    THEN [i \in 1..Len(sd) |-> [sd[i] EXCEPT !.key = << "module" >> \o sd[i].key]]
    ELSE sd

BnNames == {"bn1", "bn2", "bn3"}

BnParams == {"weight", "bias", "running_mean", "running_var", "num_batches_tracked"}

DecimalDigits == {"0", "1", "2", "3", "4", "5", "6", "7", "8", "9"}

\* str.isdigit() on the segments that occur in the keys (one digit each).
IsDigit(part) == part \in DecimalDigits

\* k in model_state and model_state[k].shape == v.shape
Resolves(ms, key, shape) == key \in DOMAIN ms /\ ms[key] = shape

\* '.'.join(parts[:i+1] + ['0'] + parts[i+1:]) for the 1-based position i.
InsertZero(parts, i) ==
    SubSeq(parts, 1, i) \o << "0" >> \o SubSeq(parts, i + 1, Len(parts))

\* Whether the rewrite at position i applies and resolves (lines 81-98).
RewriteHits(ms, parts, shape, i) ==
    /\ i + 1 <= Len(parts)
    /\ parts[i] \in BnNames \/ IsDigit(parts[i])
    /\ parts[i + 1] \in BnParams
    /\ Resolves(ms, InsertZero(parts, i), shape)

\* The rewrite of the last position that resolves.
RemapKey_lastHit(ms, key, shape) ==
    IF Resolves(ms, key, shape) THEN key
    ELSE LET hits == {i \in 1..Len(key) : RewriteHits(ms, key, shape, i)} IN
         IF hits = {} THEN key
         ELSE InsertZero(key, CHOOSE i \in hits : \A j \in hits : i >= j)

\* Lines 69-102 for one entry: the key under which it is stored.
RemapKey(ms, key, shape) ==
    IF Resolves(ms, key, shape) THEN key
    ELSE LET hits == {i \in 1..Len(key) : RewriteHits(ms, key, shape, i)} IN
         IF hits = {} THEN key
         ELSE InsertZero(key, CHOOSE i \in hits : \A j \in hits : i <= j)

\* remapped_state_dict after the loop: key -> entry; a later entry stored
\* under a key already present replaces the earlier one.
RECURSIVE RemapInto(_, _, _, _)
RemapInto(acc, ms, sd, i) ==
    IF i > Len(sd) THEN acc
    ELSE LET nk   == RemapKey(ms, sd[i].key, sd[i].shape)
             rest == [k \in DOMAIN acc \ {nk} |-> acc[k]]
         IN  RemapInto((nk :> [shape |-> sd[i].shape, val |-> sd[i].val]) @@ rest,
                       ms, sd, i + 1)

EmptyMap == [k \in {} |-> 0]

Remapped(ms, sd) == RemapInto(EmptyMap, ms, sd, 1)

\* model.load_state_dict(remapped_state_dict, strict=False): torch copies
\* every tensor whose key and shape match, tolerates missing and unexpected
\* keys, and raises RuntimeError (size mismatch) at the end if a key of the
\* model was given a tensor of another shape, whatever strict is.
SizeMismatches(ms, rm) == {k \in DOMAIN rm \cap DOMAIN ms : rm[k].shape # ms[k]}

\* Substring test 'num_batches_tracked' in k, on these keys.
HasNumBatchesTracked(key) == \E i \in 1..Len(key) : key[i] = "num_batches_tracked"

\* d.update(es) on an ordered mapping: an entry whose key is present
\* replaces the value in place, another one is appended.
RECURSIVE DictUpdate(_, _)
DictUpdate(d, es) ==
    IF es = << >> THEN d
    ELSE LET e   == Head(es)
             hit == {i \in 1..Len(d) : d[i].key = e.key}
         IN  DictUpdate(IF hit = {} THEN Append(d, e)
                        ELSE [i \in 1..Len(d) |-> IF i \in hit THEN e ELSE d[i]],
                        Tail(es))

\* The prefixed entries are written into the mapping state_dict denotes.
NewStateDict_inPlace(ref) == ref

\* new_state_dict = OrderedDict(): the prefixed entries go to a new mapping.
NewStateDict(ref) == "new_state_dict"

\* Lines 66-119 on a fresh model with namespace ms, for the mapping sd that
\* state_dict denotes: the remapping loop, load_state_dict and the two key
\* reports.  keys are the keys state_dict had at line 56.
LoadResult(ms, keys, sd) ==
    LET rm     == Remapped(ms, sd)
        bad    == SizeMismatches(ms, rm)
        ckpt   == DOMAIN rm
        own    == DOMAIN ms
        stored == [i \in 1..Len(sd) |-> RemapKey(ms, sd[i].key, sd[i].shape)]
    IN  IF bad # {}
        THEN [outcome    |-> "raised",
              sourceKeys |-> keys,
              storedAs   |-> stored,
              remapped   |-> rm,
              installed  |-> [k \in (ckpt \cap own) \ bad |-> rm[k].val],
              missing    |-> {},
              unexpected |-> {}]
        ELSE [outcome    |-> "returned",
              sourceKeys |-> keys,
              storedAs   |-> stored,
              remapped   |-> rm,
              installed  |-> [k \in ckpt \cap own |-> rm[k].val],
              missing    |-> {k \in own \ ckpt : ~HasNumBatchesTracked(k)},
              unexpected |-> ckpt \ own]

\* Lines 48-56 of a call on a freshly constructed model: state_dict is bound.
BindStateDict ==
    /\ loadPc = "call"
    /\ Len(loadResults) < MaxLoads
    /\ loadHeap' = IF ckptSource.kind = "path"
                   THEN [NoObjects EXCEPT !["loaded"] = ckptSource.top,
                                          !["loaded.model"] = ckptSource.nested]
                   ELSE NoObjects
    /\ stateDict' = SourceStateDict(ckptSource)
    /\ boundKeys' = LET sd == Content(ckptSource, loadHeap', stateDict')
                    IN  {sd[i].key : i \in 1..Len(sd)}
    /\ loadPc' = "bound"
    /\ UNCHANGED <<modelState, ckptSource, ckptAtStart, isRestore, loadResults>>
    /\ UNCHANGED notLoadVars

\* Lines 58-63: with is_restore the prefixed entries are written to
\* new_state_dict and state_dict is rebound to it.
PrefixKeys ==
    /\ loadPc = "bound"
    /\ IF isRestore
       THEN LET target   == NewStateDict(stateDict)
                prefixed == RestoreKeys(Content(ckptSource, loadHeap, stateDict), TRUE)
                updated  == DictUpdate(Content(ckptSource, loadHeap, target), prefixed)
            IN  /\ ckptSource' = CallerAfterStore(ckptSource, target, updated)
                /\ loadHeap' = HeapAfterStore(loadHeap, target, updated)
                /\ stateDict' = target
       ELSE UNCHANGED <<ckptSource, loadHeap, stateDict>>
    /\ loadPc' = "prefixed"
    /\ UNCHANGED <<modelState, ckptAtStart, isRestore, loadResults, boundKeys>>
    /\ UNCHANGED notLoadVars

\* Lines 66-128: the entries of state_dict are remapped into a new mapping,
\* installed and reported; "del" drops the local names and the call ends,
\* its own mappings with it.
RemapAndLoad ==
    /\ loadPc = "prefixed"
    /\ loadResults' = Append(loadResults,
                             LoadResult(modelState, boundKeys,
                                        Content(ckptSource, loadHeap, stateDict)))
    /\ stateDict' = "none"
    /\ loadHeap' = NoObjects
    /\ boundKeys' = {}
    /\ loadPc' = "call"
    /\ UNCHANGED <<modelState, ckptSource, ckptAtStart, isRestore>>
    /\ UNCHANGED notLoadVars

LoadNext == BindStateDict \/ PrefixKeys \/ RemapAndLoad

(***************************************************************************)
(* parse_devices: CCNet/utils/pyt_utils.py.                                *)
(* A string is the sequence of its characters.                             *)
(***************************************************************************)

\* Longest input_devices string.
MaxSpecLen == 5

\* Largest torch.cuda.device_count().
MaxDevices == 4

DigitChars == {"0", "1", "2"}

\* Characters of an input_devices string: digits, the range hyphen, the item
\* comma, the star, and a character int() rejects.
SpecChars == DigitChars \cup {"-", ",", "*", "x"}

RECURSIVE StringsUpTo(_)
StringsUpTo(n) ==
    IF n = 0 THEN { << >> }
    ELSE LET shorter == StringsUpTo(n - 1) IN
         shorter \cup { Append(q, c) : q \in {x \in shorter : Len(x) = n - 1},
                                       c \in SpecChars }

NotParsed == [outcome |-> "none", devices |-> << >>]

ParseInit ==
    /\ inputDevices \in StringsUpTo(MaxSpecLen)
    /\ deviceCount \in 0..MaxDevices
    /\ parsed = NotParsed

ParseIdle ==
    /\ inputDevices = << >>
    /\ deviceCount = 0
    /\ parsed = NotParsed

\* str.split(sep) for a one-character separator: the pieces between the
\* separators, empty pieces included.
RECURSIVE SplitFrom(_, _, _, _)
SplitFrom(str, sep, i, piece) ==
    IF i > Len(str) THEN << piece >>
    ELSE IF str[i] = sep THEN << piece >> \o SplitFrom(str, sep, i + 1, << >>)
    ELSE SplitFrom(str, sep, i + 1, Append(piece, str[i]))

Split(str, sep) == SplitFrom(str, sep, 1, << >>)

DigitValue(c) == CASE c = "0" -> 0 [] c = "1" -> 1 [] c = "2" -> 2 [] c = "3" -> 3
                   [] c = "4" -> 4 [] c = "5" -> 5 [] c = "6" -> 6 [] c = "7" -> 7
                   [] c = "8" -> 8 [] c = "9" -> 9

\* int(str) succeeds on a non-empty string of decimal digits (among the
\* strings over SpecChars) and raises ValueError on the others.
IsIntLiteral(str) == str # << >> /\ \A i \in 1..Len(str) : str[i] \in DecimalDigits

RECURSIVE IntOf(_)
IntOf(str) ==
    IF str = << >> THEN 0
    ELSE 10 * IntOf(SubSeq(str, 1, Len(str) - 1)) + DigitValue(str[Len(str)])

\* list(range(a, b)): end excluded.
RangeList_exclusive(a, b) == [i \in 1..(IF b > a THEN b - a ELSE 0) |-> a + i - 1]

\* The devices appended by "for sd in range(start_device, end_device + 1)".
RangeList(a, b) == [i \in 1..(IF b >= a THEN b - a + 1 ELSE 0) |-> a + i - 1]

\* One item d of the comma-separated list (lines 138-150): the exception it
\* raises, or the devices it appends.
ParseItem(d, count) ==
    IF \E i \in 1..Len(d) : d[i] = "-"
    THEN LET pieces == Split(d, "-")
             start_device == pieces[1]
             end_device == pieces[2]
         IN  IF start_device = << >> \/ end_device = << >>
             THEN [outcome |-> "AssertionError", devices |-> << >>]
             ELSE IF ~IsIntLiteral(start_device) \/ ~IsIntLiteral(end_device)
             THEN [outcome |-> "ValueError", devices |-> << >>]
             ELSE IF ~(IntOf(start_device) < IntOf(end_device))
             THEN [outcome |-> "AssertionError", devices |-> << >>]
             ELSE IF ~(IntOf(end_device) < count)
             THEN [outcome |-> "AssertionError", devices |-> << >>]
             ELSE [outcome |-> "ok",
                   devices |-> RangeList(IntOf(start_device), IntOf(end_device))]
    ELSE IF ~IsIntLiteral(d)
         THEN [outcome |-> "ValueError", devices |-> << >>]
         ELSE IF ~(IntOf(d) < count)
         THEN [outcome |-> "AssertionError", devices |-> << >>]
         ELSE [outcome |-> "ok", devices |-> << IntOf(d) >>]

\* The for loop over input_devices.split(','): the first item that raises
\* ends the call with its exception.
RECURSIVE ParseItems(_, _, _, _)
ParseItems(items, count, i, devices) ==
    IF i > Len(items) THEN [outcome |-> "returned", devices |-> devices]
    ELSE LET r == ParseItem(items[i], count) IN
         IF r.outcome # "ok" THEN r
         ELSE ParseItems(items, count, i + 1, devices \o r.devices)

\* parse_devices(input_devices)
parse_devices(str, count) ==
    IF str # << >> /\ str[Len(str)] = "*"
    THEN [outcome |-> "returned", devices |-> RangeList(0, count - 1)]
    ELSE ParseItems(Split(str, ","), count, 1, << >>)

ParseDevicesCall ==
    /\ parsed = NotParsed
    /\ parsed' = parse_devices(inputDevices, deviceCount)
    /\ UNCHANGED <<inputDevices, deviceCount>>
    /\ UNCHANGED notParseVars

ParseNext == ParseDevicesCall

(***************************************************************************)
(* preprocess_image: CCNet/tools/run_inference.py.                         *)
(* Only the shapes matter to the resize policy, so an image is its shape   *)
(* <<h, w>>; an image cv2.imread cannot decode is << >> (raw is None).     *)
(* The scale is the fraction <<numerator, denominator>>; 1.0 is <<1, 1>>.  *)
(***************************************************************************)

\* Bound on the edges of the input image and on long_side.
MaxSide == 6

NotPreprocessed == [outcome |-> "none", size |-> << >>, scale |-> <<1, 1>>]

PreInit ==
    /\ rawShape \in {<< >>} \cup ((1..MaxSide) \X (1..MaxSide))
    /\ longSide \in -1..MaxSide
    /\ preprocessed = NotPreprocessed

PreIdle ==
    /\ rawShape = << >>
    /\ longSide = 0
    /\ preprocessed = NotPreprocessed

MaxOf(a, b) == IF a >= b THEN a ELSE b

MinOf(a, b) == IF a <= b THEN a ELSE b

\* Python's round() of the non-negative fraction n / d: to the nearest
\* integer, a tie going to the even neighbour.
RoundHalfEven(n, d) ==
    LET q == n \div d
        r == n % d
    IN  IF 2 * r < d THEN q
        ELSE IF 2 * r > d THEN q + 1
        ELSE IF q % 2 = 0 THEN q ELSE q + 1

\* cv2.resize(src, (new_w, new_h)) raises cv2.error for an empty dsize.
ResizeFails(new_w, new_h) == new_w <= 0 \/ new_h <= 0

\* The mutant: the image is scaled to long_side whenever it differs (it is
\* upscaled when smaller).
ResizeScale_upscales(long_side, max_side) == <<long_side, max_side>>

\* scale = min(long_side / float(max_side), 1.0)
ResizeScale(long_side, max_side) ==
    IF long_side < max_side THEN <<long_side, max_side>> ELSE <<1, 1>>

preprocess_image(raw, long_side) ==
    IF raw = << >>
    THEN [outcome |-> "RuntimeError", size |-> << >>, scale |-> <<1, 1>>]
    ELSE LET h == raw[1]
             w == raw[2]
             max_side == MaxOf(h, w)
         IN  IF long_side > 0 /\ max_side # long_side
             THEN LET scale == ResizeScale(long_side, max_side)
                      new_w == RoundHalfEven(w * scale[1], scale[2])
                      new_h == RoundHalfEven(h * scale[1], scale[2])
                  IN  IF scale # <<1, 1>>
                      THEN IF ResizeFails(new_w, new_h)
                           THEN [outcome |-> "cv2.error", size |-> << >>,
                                 scale |-> scale]
                           ELSE [outcome |-> "returned", size |-> <<new_h, new_w>>,
                                 scale |-> scale]
                      ELSE [outcome |-> "returned", size |-> raw, scale |-> scale]
             ELSE [outcome |-> "returned", size |-> raw, scale |-> <<1, 1>>]

PreprocessCall ==
    /\ preprocessed = NotPreprocessed
    /\ preprocessed' = preprocess_image(rawShape, longSide)
    /\ UNCHANGED <<rawShape, longSide>>
    /\ UNCHANGED notPreVars

PreNext == PreprocessCall

(***************************************************************************)
(* add_labels_to_image: CCNet/tools/run_inference.py.                      *)
(***************************************************************************)

\* Bound on the number of connected components of the mask.
MaxRegions == 3

\* Default of the min_region_size argument.
MinRegionSize == 500

\* Values of the min_region_size argument: a small one and the default.
MinRegionSizes == {300, MinRegionSize}

\* Class indices the mask may hold.
ClassIds == {0, 1}

\* Areas of the components.
RegionSizes == {400, 600}

\* Centroids of the components (lines 309-316): <<cx, cy>>.
Centroids == {<<100, 100>>, <<160, 100>>, <<178, 100>>}

\* Widths of the image.
Widths == {512, 1000}

\* Values of the max_labels_per_class argument (--max-labels-per-class,
\* type=int): a cap of one, the default, and a negative integer.
MaxLabelsValues == {-1, 1, 3}

\* A connected component of one class, as scipy's ndimage.label and the
\* moments of its largest contour describe it.
Regions == [class : ClassIds, size : RegionSizes, pos : Centroids]

SeqsUpTo(S, n) == UNION {[1..k -> S] : k \in 0..n}

LabelInit ==
    /\ imgWidth \in Widths
    /\ regions \in SeqsUpTo(Regions, MaxRegions)
    /\ numClassNames \in {1, 2}
    /\ maxLabels \in MaxLabelsValues
    /\ minRegionSize \in MinRegionSizes
    /\ candidates = << >>
    /\ labelPositions = << >>
    /\ drawnLabels = << >>
    /\ labelPc = "start"

LabelIdle ==
    /\ imgWidth = 0
    /\ regions = << >>
    /\ numClassNames = 0
    /\ maxLabels = 0
    /\ minRegionSize = 0
    /\ candidates = << >>
    /\ labelPositions = << >>
    /\ drawnLabels = << >>
    /\ labelPc = "idle"

\* The components of class c, in ndimage.label order.
ClassComponents(rs, c) == SelectSeq(rs, LAMBDA r : r.class = c)

RemoveAt(q, i) == SubSeq(q, 1, i - 1) \o SubSeq(q, i + 1, Len(q))

\* component_sizes.sort(key=lambda x: x[1], reverse=True): stable, largest
\* first.
RECURSIVE SortBySizeDesc(_)
SortBySizeDesc(q) ==
    IF q = << >> THEN << >>
    ELSE LET i == CHOOSE i \in 1..Len(q) :
                      /\ \A j \in 1..Len(q) : q[j].size <= q[i].size
                      /\ \A j \in 1..(i - 1) : q[j].size < q[i].size
         IN  <<q[i]>> \o SortBySizeDesc(RemoveAt(q, i))

\* component_sizes[:max_labels_per_class]: the first n elements for n >= 0,
\* all but the last -n elements for n < 0.
TopN(q, n) ==
    SubSeq(q, 1, IF n >= 0 THEN MinOf(n, Len(q)) ELSE MaxOf(Len(q) + n, 0))

\* The components the two nested loops visit, in order: classes ascending
\* (np.unique), a class index beyond class_names skipped, the largest
\* max_labels_per_class components of each class, largest first.
RECURSIVE ComponentsFrom(_, _, _, _)
ComponentsFrom(rs, c, nnames, maxl) ==
    IF c \notin ClassIds THEN << >>
    ELSE (IF c >= nnames THEN << >>
          ELSE TopN(SortBySizeDesc(ClassComponents(rs, c)), maxl))
         \o ComponentsFrom(rs, c + 1, nnames, maxl)

\* The mutant: the distance does not grow with the width of the image.
MinDistance_fixed(w) == 60

\* min_distance = max(60, int(80 * (w / 1024.0)))
MinDistance(w) == MaxOf(60, (80 * w) \div 1024)

\* distance = np.sqrt((cx - existing_x)**2 + (cy - existing_y)**2), compared
\* by its square.
DistanceSquared(p, q) == (p[1] - q[1]) * (p[1] - q[1]) + (p[2] - q[2]) * (p[2] - q[2])

TooClose(p, positions, w) ==
    \E i \in 1..Len(positions) :
        DistanceSquared(p, positions[i]) < MinDistance(w) * MinDistance(w)

\* Lines 244-268: the copy of the image, the font scale, np.unique.
BeginLabels ==
    /\ labelPc = "start"
    /\ candidates' = ComponentsFrom(regions, 0, numClassNames, maxLabels)
    /\ labelPc' = "loop"
    /\ UNCHANGED <<imgWidth, regions, numClassNames, maxLabels, minRegionSize,
                   labelPositions, drawnLabels>>
    /\ UNCHANGED notLabelVars

\* One pass of the inner loop (lines 292-362) over the next component.
ConsiderComponent ==
    /\ labelPc = "loop"
    /\ candidates # << >>
    /\ LET r == Head(candidates)
           rejected == \/ r.size < minRegionSize
                       \/ TooClose(r.pos, labelPositions, imgWidth)
       IN  /\ labelPositions' =
                 IF rejected THEN labelPositions ELSE Append(labelPositions, r.pos)
           /\ drawnLabels' =
                 IF rejected THEN drawnLabels ELSE Append(drawnLabels, r)
    /\ candidates' = Tail(candidates)
    /\ UNCHANGED <<imgWidth, regions, numClassNames, maxLabels, minRegionSize,
                   labelPc>>
    /\ UNCHANGED notLabelVars

\* return labeled_image
FinishLabels ==
    /\ labelPc = "loop"
    /\ candidates = << >>
    /\ labelPc' = "done"
    /\ UNCHANGED <<imgWidth, regions, numClassNames, maxLabels, minRegionSize,
                   candidates, labelPositions, drawnLabels>>
    /\ UNCHANGED notLabelVars

LabelNext == BeginLabels \/ ConsiderComponent \/ FinishLabels

(***************************************************************************)
(* build_palette and colorize_mask: CCNet/tools/run_inference.py.          *)
(***************************************************************************)

\* Bound on the num_classes argument.
MaxPaletteClasses == 21

\* Bound on the number of pixels of the mask.
MaxMaskLen == 2

\* Class indices the mask may hold.
MaskValues == {0, 1, 18, 19, 20}

CITYSCAPES_COLORS ==
    << <<128, 64, 128>>, <<244, 35, 232>>, <<70, 70, 70>>, <<102, 102, 156>>,
       <<190, 153, 153>>, <<153, 153, 153>>, <<250, 170, 30>>, <<220, 220, 0>>,
       <<107, 142, 35>>, <<152, 251, 152>>, <<70, 130, 180>>, <<220, 20, 60>>,
       <<255, 0, 0>>, <<0, 0, 142>>, <<0, 0, 70>>, <<0, 60, 100>>,
       <<0, 80, 100>>, <<0, 0, 230>>, <<119, 11, 32>> >>

\* Number of entries of a palette (the list has three bytes per entry).
PaletteEntries == 256

PaletteInit ==
    /\ paletteClasses \in -2..MaxPaletteClasses
    /\ maskPixels \in SeqsUpTo(MaskValues, MaxMaskLen)
    /\ palette = << >>
    /\ rendered = << >>
    /\ palettePc = "start"

PaletteIdle ==
    /\ paletteClasses = 0
    /\ maskPixels = << >>
    /\ palette = << >>
    /\ rendered = << >>
    /\ palettePc = "idle"

\* Number of elements of the Python slice q[:n] of a list of length len.
SliceLen(len, n) == IF n >= 0 THEN MinOf(n, len) ELSE MaxOf(len + n, 0)

\* The mutant: base = idx, so that successive colours overlap.
PaletteBase_unscaled(i) == i

\* base = idx * 3
PaletteBase(i) == i * 3

\* build_palette: palette[k] for the 0-based position k of the flat list.  The
\* slice assignments are made in ascending idx, so the last idx that covers
\* position k decides.
PaletteByte(num_classes, k) ==
    LET covering == {i \in 0..(SliceLen(Len(CITYSCAPES_COLORS), num_classes) - 1) :
                         PaletteBase(i) <= k /\ k < PaletteBase(i) + 3}
    IN  IF covering = {} THEN 0
        ELSE LET i == CHOOSE i \in covering : \A j \in covering : j <= i
             IN  CITYSCAPES_COLORS[i + 1][k - PaletteBase(i) + 1]

build_palette(num_classes) ==
    [k \in 1..(PaletteEntries * 3) |-> PaletteByte(num_classes, k - 1)]

\* The colour a palette-indexed ("P" mode) image shows for pixel value v.
PaletteColour(pal, v) == <<pal[3 * v + 1], pal[3 * v + 2], pal[3 * v + 3]>>

\* colorize_mask: Image.fromarray(mask, mode="P"), img.putpalette(palette)
colorize_mask(mask, pal) == [i \in 1..Len(mask) |-> PaletteColour(pal, mask[i])]

BuildPalette ==
    /\ palettePc = "start"
    /\ palette' = build_palette(paletteClasses)
    /\ palettePc' = "built"
    /\ UNCHANGED <<paletteClasses, maskPixels, rendered>>
    /\ UNCHANGED notPaletteVars

ColorizeMask ==
    /\ palettePc = "built"
    /\ rendered' = colorize_mask(maskPixels, palette)
    /\ palettePc' = "done"
    /\ UNCHANGED <<paletteClasses, maskPixels, palette>>
    /\ UNCHANGED notPaletteVars

PaletteNext == BuildPalette \/ ColorizeMask

(***************************************************************************)
(* register_image_folder_dataset: FasterRCNN/register_custom_dataset.py.   *)
(***************************************************************************)

\* img.shape[:2] of a decodable file: <<height, width>>.
ImageShape(i) == <<10 * i, 10 * i + 5>>

\* An empty DatasetCatalog.
EmptyCatalog == [n \in {} |-> << >>]

DsInit ==
    /\ dsName \in {DatasetName(d) : d \in DatasetArgs}
    /\ dsDirExists \in BOOLEAN
    /\ dsTree \in {t \in SUBSET PathIds : Cardinality(t) <= MaxTree}
    /\ dsDirExists = FALSE => dsTree = {}
    /\ dsUnreadable \in SUBSET {i \in dsTree : Lower(PathUniverse[i].suffix) \in valid_exts}
    /\ catalog = EmptyCatalog
    /\ dsRecords = << >>
    /\ dsPc = "start"

DsIdle ==
    /\ dsName = "none"
    /\ dsDirExists = FALSE
    /\ dsTree = {}
    /\ dsUnreadable = {}
    /\ catalog = EmptyCatalog
    /\ dsRecords = << >>
    /\ dsPc = "idle"

\* The mutant: a file that cannot be decoded still gets a record.
Decodes_always(i, bad) == TRUE

\* img = cv2.imread(image_path); img is not None
Decodes(i, bad) == i \notin bad

\* The record of one decodable image file.
Record(i) ==
    [file_name |-> i,
     image_id |-> PathUniverse[i].stem,
     height |-> ImageShape(i)[1],
     width |-> ImageShape(i)[2]]

\* get_image_dicts: one record per file of image_files that decodes, in order.
RECURSIVE get_image_dicts(_, _)
get_image_dicts(fs, bad) ==
    IF fs = << >> THEN << >>
    ELSE (IF Decodes(Head(fs), bad) THEN <<Record(Head(fs))>> ELSE << >>)
         \o get_image_dicts(Tail(fs), bad)

\* register_image_folder_dataset(name, image_dir)
RegisterImageFolder ==
    /\ dsPc = "start"
    /\ IF ~dsDirExists \/ image_files(dsTree) = << >>
       THEN /\ dsPc' = "ValueError"
            /\ UNCHANGED catalog
       ELSE /\ catalog' = [n \in {dsName} |-> image_files(dsTree)]
            /\ dsPc' = "registered"
    /\ UNCHANGED <<dsName, dsDirExists, dsTree, dsUnreadable, dsRecords>>
    /\ UNCHANGED notDsVars

\* DatasetCatalog.get(name): runs the registered get_image_dicts.
MaterializeDataset ==
    /\ dsPc = "registered"
    /\ dsRecords' = get_image_dicts(catalog[dsName], dsUnreadable)
    /\ dsPc' = "materialized"
    /\ UNCHANGED <<dsName, dsDirExists, dsTree, dsUnreadable, catalog>>
    /\ UNCHANGED notDsVars

DsNext == RegisterImageFolder \/ MaterializeDataset

(***************************************************************************)
(* extract_frames: custom_dataset/sample.py.                               *)
(***************************************************************************)

\* Bound on the number of frames of the video.
MaxFrames == 6

\* Frame rates the container may report, in tenths of a frame per second:
\* 0, 0.5, 1.0 and 2.5 frames per second.
FpsTenths == {0, 5, 10, 25}

\* Values of the interval_sec argument.
IntervalSeconds == {1, 2}

SamplerInit ==
    /\ videoOpens \in BOOLEAN
    /\ videoFps \in FpsTenths
    /\ intervalSec \in IntervalSeconds
    /\ videoFrames \in 0..MaxFrames
    /\ capOpen = FALSE
    /\ frameCount = 0
    /\ savedCount = 0
    /\ savedFrames = << >>
    /\ samplerPc = "start"

SamplerIdle ==
    /\ videoOpens = FALSE
    /\ videoFps = 0
    /\ intervalSec = 0
    /\ videoFrames = 0
    /\ capOpen = FALSE
    /\ frameCount = 0
    /\ savedCount = 0
    /\ savedFrames = << >>
    /\ samplerPc = "idle"

\* frame_interval = int(fps * interval_sec)
FrameInterval(fpsTenths, seconds) == (fpsTenths * seconds) \div 10

\* f"{saved_count:05d}": the decimal digits of n, padded with zeros to five.
Format05d(n) ==
    <<(n \div 10000) % 10, (n \div 1000) % 10, (n \div 100) % 10, (n \div 10) % 10, n % 10>>

\* The mutant: the frame before each multiple is saved.
ShouldSave_offByOne(count, interval) == (count + 1) % interval = 0

\* frame_count % frame_interval == 0
ShouldSave(count, interval) == count % interval = 0

\* Lines 6-19: the output directory, the capture, the two validations, the
\* frame interval and the counters.
OpenVideo ==
    /\ samplerPc = "start"
    /\ IF ~videoOpens
       THEN /\ samplerPc' = "RuntimeError_open"
            /\ capOpen' = FALSE
       ELSE IF videoFps = 0
       THEN /\ samplerPc' = "RuntimeError_fps"
            /\ capOpen' = TRUE
       ELSE /\ samplerPc' = "loop"
            /\ capOpen' = TRUE
    /\ UNCHANGED <<videoOpens, videoFps, intervalSec, videoFrames, frameCount,
                   savedCount, savedFrames>>
    /\ UNCHANGED notSamplerVars

\* Lines 22-33: one frame is read and, on a multiple of the interval, saved.
ReadFrame ==
    /\ samplerPc = "loop"
    /\ frameCount < videoFrames
    /\ LET interval == FrameInterval(videoFps, intervalSec) IN
       IF interval = 0
       THEN /\ samplerPc' = "ZeroDivisionError"
            /\ UNCHANGED <<frameCount, savedCount, savedFrames>>
       ELSE /\ IF ShouldSave(frameCount, interval)
               THEN /\ savedFrames' = Append(savedFrames,
                                             [name |-> Format05d(savedCount),
                                              frame |-> frameCount])
                    /\ savedCount' = savedCount + 1
               ELSE UNCHANGED <<savedCount, savedFrames>>
            /\ frameCount' = frameCount + 1
            /\ UNCHANGED samplerPc
    /\ UNCHANGED <<videoOpens, videoFps, intervalSec, videoFrames, capOpen>>
    /\ UNCHANGED notSamplerVars

\* Lines 22-24 and 35-36: the read fails, the loop ends, the capture is
\* released.
EndOfVideo ==
    /\ samplerPc = "loop"
    /\ frameCount >= videoFrames
    /\ capOpen' = FALSE
    /\ samplerPc' = "done"
    /\ UNCHANGED <<videoOpens, videoFps, intervalSec, videoFrames, frameCount,
                   savedCount, savedFrames>>
    /\ UNCHANGED notSamplerVars

SamplerNext == OpenVideo \/ ReadFrame \/ EndOfVideo

(***************************************************************************)
(* DarkChannelPrior.dehaze on a uniform image: fog-removal/dcp.py.         *)
(* Every pixel of the input has the same value in its three channels, so   *)
(* every intermediate image is uniform too and is held as the one value    *)
(* its pixels share.  A real number is the fraction <<n, d>> in lowest     *)
(* terms with d > 0; <<0, 0>> is NaN and <<1, 0>>, <<-1, 0>> are the       *)
(* infinities.  The arithmetic of the fractions is exact; the one rounding *)
(* of the double arithmetic that reaches the output, that of the running   *)
(* sum behind the atmospheric light, is kept as the sign err of A - v.     *)
(***************************************************************************)

\* Largest value of an 8-bit channel.
MaxByte == 255

\* Sizes h * w of the input image.
PixelCounts == {1, 2000, 3000}

NaN == <<0, 0>>

Abs(x) == IF x < 0 THEN -x ELSE x

RECURSIVE GCD(_, _)
GCD(a, b) == IF b = 0 THEN a ELSE GCD(b, a % b)

\* The fraction n / d (d # 0) in lowest terms.
Rat(n, d) ==
    LET g == GCD(Abs(n), Abs(d))
        sgn == IF d < 0 THEN -1 ELSE 1
    IN  <<sgn * (n \div g), sgn * (d \div g)>>

\* Neither NaN nor an infinity.
IsFinite(a) == a[2] # 0

\* The infinity of the sign of the integer n (n # 0).
Infinity(n) == IF n > 0 THEN <<1, 0>> ELSE <<-1, 0>>

\* IEEE addition: NaN propagates, inf + (-inf) is NaN, an infinity absorbs
\* a finite operand.
RatAdd(a, b) ==
    IF a = NaN \/ b = NaN THEN NaN
    ELSE IF ~IsFinite(a) THEN (IF ~IsFinite(b) /\ b # a THEN NaN ELSE a)
    ELSE IF ~IsFinite(b) THEN b
    ELSE LET g == GCD(a[2], b[2])
         IN  Rat(a[1] * (b[2] \div g) + b[1] * (a[2] \div g), a[2] * (b[2] \div g))

RatNeg(a) == <<-a[1], a[2]>>

RatSub(a, b) == RatAdd(a, RatNeg(b))

\* IEEE multiplication: NaN propagates, inf * 0 is NaN, inf * x is the
\* infinity of the product of the signs.
RatMul(a, b) ==
    IF a = NaN \/ b = NaN THEN NaN
    ELSE IF ~IsFinite(a) \/ ~IsFinite(b)
    THEN (IF a[1] = 0 \/ b[1] = 0 THEN NaN ELSE Infinity(a[1] * b[1]))
    ELSE LET x == Rat(a[1], b[2])
             y == Rat(b[1], a[2])
         IN  <<x[1] * y[1], x[2] * y[2]>>

\* IEEE division: NaN propagates, inf / inf and 0 / 0 are NaN, inf / x and
\* x / 0 are infinities, x / inf is zero.  A fraction has no signed zero: a
\* zero divisor counts as +0 and a zero quotient is <<0, 1>>.
RatDiv(a, b) ==
    IF a = NaN \/ b = NaN THEN NaN
    ELSE IF ~IsFinite(a)
    THEN (IF ~IsFinite(b) THEN NaN
          ELSE IF b[1] < 0 THEN RatNeg(a) ELSE a)
    ELSE IF ~IsFinite(b) THEN <<0, 1>>
    ELSE IF b[1] = 0
    THEN (IF a[1] = 0 THEN NaN ELSE Infinity(a[1]))
    ELSE RatMul(a, Rat(b[2], b[1]))

\* a < b: false when an operand is NaN.
RatLess(a, b) ==
    IF a = NaN \/ b = NaN THEN FALSE
    ELSE IF ~IsFinite(a) /\ ~IsFinite(b) THEN a[1] < b[1]
    ELSE a[1] * b[2] < b[1] * a[2]

\* Defaults of the constructor.
Omega == <<19, 20>>

GuidedFilterEps == <<1, 10000>>

TMin == <<1, 10>>

NoLight == [val |-> NaN, err |-> 0]

DcpInit ==
    /\ grayValue \in 0..MaxByte
    /\ pixelCount \in PixelCounts
    /\ atmLight = NoLight
    /\ transmission = NaN
    /\ recovered = -1
    /\ dcpPc = "start"

DcpIdle ==
    /\ grayValue = 0
    /\ pixelCount = 0
    /\ atmLight = NoLight
    /\ transmission = NaN
    /\ recovered = -1
    /\ dcpPc = "idle"

\* normalized_img = image.astype(np.float64) / 255.0
Normalize(g) == Rat(g, MaxByte)

\* _compute_dark_channel: the minimum of the three channels, then the
\* erosion by the patch; on a uniform image both give the value back.
DarkChannel(v) == v

\* num_pixels = int(max(math.floor(img_size * self.atm_percentile), 1))
NumPixels(size) == MaxOf(size \div 1000, 1)

\* Signs the rounding of atm_sum (num_pixels additions of the same double,
\* then one division) can leave in A - v: none up to two pixels.
SumErrors(n) == IF n <= 2 THEN {0} ELSE {-1, 0, 1}

\* atm_sum after the loop of lines 68-70 over n indices: every selected
\* pixel of a uniform image holds the value v.
RECURSIVE AtmSum(_, _)
AtmSum(v, n) == IF n = 0 THEN <<0, 1>> ELSE RatAdd(AtmSum(v, n - 1), v)

\* _compute_atmospheric_light(image, dark): A = atm_sum / num_pixels
compute_atmospheric_light(v, size) ==
    RatDiv(AtmSum(v, NumPixels(size)), <<NumPixels(size), 1>>)

\* t = 1 - self.omega * dark
EstimateTransmission(dark) == RatSub(<<1, 1>>, RatMul(Omega, dark))

\* _compute_transmission(image, A)
compute_transmission(v, A) == EstimateTransmission(DarkChannel(RatDiv(v, A)))

\* _guided_filter(guide, src, radius, eps) for a uniform guide I and a
\* uniform source p: every box filter of a uniform image is that image.
guided_filter(I, p) ==
    LET mean_I == I
        mean_p == p
        mean_Ip == RatMul(I, p)
        cov_Ip == RatSub(mean_Ip, RatMul(mean_I, mean_p))
        mean_II == RatMul(I, I)
        var_I == RatSub(mean_II, RatMul(mean_I, mean_I))
        a == RatDiv(cov_Ip, RatAdd(var_I, GuidedFilterEps))
        b == RatSub(mean_p, RatMul(a, mean_I))
    IN  RatAdd(RatMul(a, I), b)

\* cv2.max(t, self.t_min): with t NaN the result is either operand.
MaxWithTMin(t) ==
    IF t = NaN THEN {NaN, TMin}
    ELSE IF ~IsFinite(t) THEN {IF t[1] > 0 THEN t ELSE TMin}
    ELSE {IF RatLess(t, TMin) THEN TMin ELSE t}

\* (image - A) / t + A
RecoverValue(v, A, t) == RatAdd(RatDiv(RatSub(v, A), t), A)

\* np.clip(x * 255, 0, 255).astype(np.uint8): the conversion truncates, so
\* a value the rounding left just below an integer comes out one lower.
\* below: the double is below the fraction x.  The conversion of NaN is
\* undefined: any byte.
ToUint8(x, below) ==
    IF x = NaN THEN 0..MaxByte
    ELSE IF ~IsFinite(x) THEN {IF x[1] > 0 THEN MaxByte ELSE 0}
    ELSE LET y == RatMul(x, <<MaxByte, 1>>)
             floor == y[1] \div y[2]
         IN  IF floor < 0 THEN {0}
             ELSE IF floor >= MaxByte THEN {IF below /\ y = <<MaxByte, 1>> THEN MaxByte - 1 ELSE MaxByte}
             ELSE IF below /\ y[2] = 1 /\ floor > 0 THEN {floor - 1}
             ELSE {floor}

\* Steps 0 to 2 of dehaze: normalization, dark channel, atmospheric light.
ComputeAtmosphericLight ==
    /\ dcpPc = "start"
    /\ \E e \in SumErrors(NumPixels(pixelCount)) :
           atmLight' = [val |-> compute_atmospheric_light(Normalize(grayValue),
                                                          pixelCount),
                        err |-> IF grayValue = 0 THEN 0 ELSE e]
    /\ dcpPc' = "light"
    /\ UNCHANGED <<grayValue, pixelCount, transmission, recovered>>
    /\ UNCHANGED notDcpVars

\* Steps 3 and 4 of dehaze: the transmission estimate and its refinement.
ComputeTransmission ==
    /\ dcpPc = "light"
    /\ transmission' = guided_filter(Normalize(grayValue),
                           compute_transmission(Normalize(grayValue), atmLight.val))
    /\ dcpPc' = "transmission"
    /\ UNCHANGED <<grayValue, pixelCount, atmLight, recovered>>
    /\ UNCHANGED notDcpVars

\* Steps 5 and 6 of dehaze: the scene is recovered and converted to bytes.
\* The recovered value is v + (v - A) * (1 / t - 1): with t < 1 it is below v
\* when A is above v.
RecoverScene ==
    /\ dcpPc = "transmission"
    /\ \E t \in MaxWithTMin(transmission) :
           recovered' \in ToUint8(RecoverValue(Normalize(grayValue), atmLight.val, t),
                                  atmLight.err > 0)
    /\ dcpPc' = "done"
    /\ UNCHANGED <<grayValue, pixelCount, atmLight, transmission>>
    /\ UNCHANGED notDcpVars

DcpNext == ComputeAtmosphericLight \/ ComputeTransmission \/ RecoverScene

(***************************************************************************)
(* KimDefogPipeline.dehaze, the fusion of the two intensity channels:      *)
(* fog-removal/defog_pipeline.py.                                          *)
(* CLAHE and the wavelet branch each return an array of bytes; the fusion  *)
(* is pixel by pixel, so one row of each is kept, with whatever bytes the  *)
(* two branches may have produced.  The fusion weight is a number of       *)
(* quarters, for which the double arithmetic is exact.                     *)
(***************************************************************************)

\* Bound on the number of pixels of the row.
MaxRowLen == 2

\* Fusion weights, in quarters: 0, 0.25, 0.5, 0.75, 1.0 and 1.5.
FusionWeights == {0, 1, 2, 3, 4, 6}

\* Values of the pixels of the two branches.
ByteSamples == {0, 100, 255}

\* Length of a row of pywt.idwt2(pywt.dwt2(v, "db4"), "db4") for a row of n
\* pixels: n rounded up to an even number.
DwtLength(n) == 2 * ((n + 7) \div 2) - 6

FusionInit ==
    /\ fusionWeight \in FusionWeights
    /\ vLength \in 1..MaxRowLen
    /\ vClahe \in [1..vLength -> ByteSamples]
    /\ vDwt \in [1..DwtLength(vLength) -> ByteSamples]
    /\ vFused = << >>

FusionIdle ==
    /\ fusionWeight = 0
    /\ vLength = 0
    /\ vClahe = << >>
    /\ vDwt = << >>
    /\ vFused = << >>

\* v_dwt[: original_shape[0], : original_shape[1]]
Crop(row, n) == SubSeq(row, 1, MinOf(n, Len(row)))

\* The mutant: the two weights are exchanged.
FusedNumerator_swapped(q, c, d) == (4 - q) * c + q * d

\* self.fusion_weight * v_clahe + (1 - self.fusion_weight) * v_dwt, times 4
FusedNumerator(q, c, d) == q * c + (4 - q) * d

\* np.clip(v_fused, 0, 255).astype(np.uint8) of the value num / 4
ClipToByte(num) ==
    IF num <= 0 THEN 0
    ELSE IF num >= 4 * MaxByte THEN MaxByte
    ELSE num \div 4

\* Steps 3 and 4 of dehaze, for one row of the intensity channel.
FuseChannels ==
    /\ vLength > 0
    /\ vFused = << >>
    /\ LET d == Crop(vDwt, vLength) IN
       vFused' = [k \in 1..vLength |->
                     ClipToByte(FusedNumerator(fusionWeight, vClahe[k], d[k]))]
    /\ UNCHANGED <<fusionWeight, vLength, vClahe, vDwt>>
    /\ UNCHANGED notFusionVars

FusionNext == FuseChannels

(***************************************************************************)
(* decode_labels and decode_predictions: CCNet/utils/pyt_utils.py.         *)
(* A mask is the sequence of the class indices of its pixels.              *)
(***************************************************************************)

\* Bound on the number of masks (images) of a batch.
MaxBatch == 2

\* The names bound at the top level of pyt_utils.py: its imports, its
\* assignments and its functions.
ModuleGlobals ==
    {"os", "sys", "time", "argparse", "OrderedDict", "defaultdict", "torch",
     "model_zoo", "dist", "get_logger", "logger", "label_colours",
     "reduce_tensor", "all_reduce_tensor", "load_model", "parse_devices",
     "extant_file", "link_file", "ensure_dir", "_dbg_interactive",
     "decode_labels", "decode_predictions", "inv_preprocess"}

label_colours ==
    << <<0, 0, 0>>,
       <<128, 0, 0>>, <<0, 128, 0>>, <<128, 128, 0>>, <<0, 0, 128>>, <<128, 0, 128>>,
       <<0, 128, 128>>, <<128, 128, 128>>, <<64, 0, 0>>, <<192, 0, 0>>, <<64, 128, 0>>,
       <<192, 128, 0>>, <<64, 0, 128>>, <<192, 0, 128>>, <<64, 128, 128>>,
       <<192, 128, 128>>,
       <<0, 64, 0>>, <<128, 64, 0>>, <<0, 192, 0>>, <<128, 192, 0>>, <<0, 64, 128>> >>

\* The masks a batch may hold.
DecodeMasks == {<<0, 1>>, <<20, 21>>, <<255, 0>>}

NotDecoded == [outcome |-> "none", images |-> << >>]

DecodeInit ==
    /\ decodeFn \in {"decode_labels", "decode_predictions"}
    /\ maskBatch \in SeqsUpTo(DecodeMasks, MaxBatch)
    /\ decodeImages \in 0..(MaxBatch + 1)
    /\ decodeClasses \in {2, 21, 22}
    /\ decoded = NotDecoded

DecodeIdle ==
    /\ decodeFn = "decode_labels"
    /\ maskBatch = << >>
    /\ decodeImages = 0
    /\ decodeClasses = 0
    /\ decoded = NotDecoded

\* The pixel loop: pixels[k_, j_] = label_colours[k] if k < num_classes, the
\* other pixels keeping the zero of Image.new; << >> stands for the
\* IndexError of label_colours[k].
DecodePixel(k, num_classes) ==
    IF k < num_classes
    THEN (IF k < Len(label_colours) THEN label_colours[k + 1] ELSE << >>)
    ELSE <<0, 0, 0>>

DecodeMask(mask, num_classes) ==
    [p \in 1..Len(mask) |-> DecodePixel(mask[p], num_classes)]

\* The body after the batch-size assertion.
DecodeBatch(masks, num_images, num_classes) ==
    LET images == [i \in 1..num_images |-> DecodeMask(masks[i], num_classes)]
    IN  IF \E i \in 1..num_images : \E p \in 1..Len(images[i]) : images[i][p] = << >>
        THEN [outcome |-> "IndexError", images |-> << >>]
        ELSE [outcome |-> "returned", images |-> images]

\* decode_labels(mask, num_images, num_classes): the assertion on the batch
\* size comes first, then np.zeros, the first use of a name the module
\* does not bind.
decode_labels(masks, num_images, num_classes) ==
    IF ~(Len(masks) >= num_images)
    THEN [outcome |-> "AssertionError", images |-> << >>]
    ELSE IF "np" \notin ModuleGlobals \/ "Image" \notin ModuleGlobals
    THEN [outcome |-> "NameError", images |-> << >>]
    ELSE DecodeBatch(masks, num_images, num_classes)

\* decode_predictions(preds, num_images, num_classes): np.argmax (or
\* np.concatenate) comes before the assertion.
decode_predictions(masks, num_images, num_classes) ==
    IF "np" \notin ModuleGlobals
    THEN [outcome |-> "NameError", images |-> << >>]
    ELSE IF ~(Len(masks) >= num_images)
    THEN [outcome |-> "AssertionError", images |-> << >>]
    ELSE IF "Image" \notin ModuleGlobals
    THEN [outcome |-> "NameError", images |-> << >>]
    ELSE DecodeBatch(masks, num_images, num_classes)

DecodeCall ==
    /\ decoded = NotDecoded
    /\ decoded' = IF decodeFn = "decode_labels"
                  THEN decode_labels(maskBatch, decodeImages, decodeClasses)
                  ELSE decode_predictions(maskBatch, decodeImages, decodeClasses)
    /\ UNCHANGED <<decodeFn, maskBatch, decodeImages, decodeClasses>>
    /\ UNCHANGED notDecodeVars

DecodeNext == DecodeCall

(***************************************************************************)
(* inv_preprocess: CCNet/utils/pyt_utils.py.                               *)
(* An image is the sequence of the channel values of a pixel; the values   *)
(* and the means are floats, held as a number of halves.                   *)
(***************************************************************************)

\* The images a batch may hold: <<-130.0, 0.5>>, <<100.0, 200.5>>, <<0.0, -0.5>>.
InvImages == {<<-260, 1>>, <<200, 401>>, <<0, -1>>}

\* The mean vectors: <<104.0, 116.5>> and <<0.0, 0.0>>.
InvMeans == {<<208, 233>>, <<0, 0>>}

NotRestored == [outcome |-> "none", images |-> << >>]

InvInit ==
    /\ imgsBatch \in SeqsUpTo(InvImages, MaxBatch)
    /\ invImages \in 0..(MaxBatch + 1)
    /\ imgMean \in InvMeans
    /\ restored = NotRestored

InvIdle ==
    /\ imgsBatch = << >>
    /\ invImages = 0
    /\ imgMean = << >>
    /\ restored = NotRestored

\* Truncation toward zero of a number of halves.
TruncHalves(x) == IF x >= 0 THEN x \div 2 ELSE -((-x) \div 2)

\* (...).astype(np.uint8) of a float: the integer part when it is a byte;
\* out of the range of a byte the conversion is undefined, and any byte may
\* come out.
AsUint8(x) ==
    LET t == TruncHalves(x)
    IN  IF 0 <= t /\ t <= MaxByte THEN {t} ELSE 0..MaxByte

\* The outputs np.transpose(imgs[i], (1,2,0)) + img_mean can give as bytes.
InvOutputs(imgs, num_images, mean) ==
    {out \in [1..num_images -> [1..Len(mean) -> 0..MaxByte]] :
        \A i \in 1..num_images : \A c \in 1..Len(mean) :
            out[i][c] \in AsUint8(imgs[i][c] + mean[c])}

\* inv_preprocess(imgs, num_images, img_mean): the assertion on the batch
\* size comes first, then np.zeros, a name the module does not bind.
inv_preprocess(imgs, num_images, mean) ==
    IF ~(Len(imgs) >= num_images)
    THEN {[outcome |-> "AssertionError", images |-> << >>]}
    ELSE IF "np" \notin ModuleGlobals
    THEN {[outcome |-> "NameError", images |-> << >>]}
    ELSE {[outcome |-> "returned", images |-> out] :
              out \in InvOutputs(imgs, num_images, mean)}

InvPreprocessCall ==
    /\ restored = NotRestored
    /\ restored' \in inv_preprocess(imgsBatch, invImages, imgMean)
    /\ UNCHANGED <<imgsBatch, invImages, imgMean>>
    /\ UNCHANGED notInvVars

InvNext == InvPreprocessCall

(***************************************************************************)
(* Training driver: FasterRCNN/train_custom.py.                            *)
(***************************************************************************)

\* Values of an optional string argument: the option is absent (None), given
\* as the empty string, or given as a path.
OptionalArgs == {"None", "", "given"}

\* Values of --max-iter.
MaxIters == {10, 1000}

\* Truth value of an optional string argument in an if.
Truthy(v) == v = "given"

NoCfg == [TRAIN |-> << >>, TEST |-> << >>, WEIGHTS |-> "none",
          MAX_ITER |-> 0, STEPS |-> <<0, 0>>]

TrainInit ==
    /\ valJson \in OptionalArgs
    /\ valImages \in OptionalArgs
    /\ configFile \in BOOLEAN
    /\ weightsGiven \in BOOLEAN
    /\ maxIter \in MaxIters
    /\ argsAttrs = {}
    /\ datasetCatalog = {}
    /\ cfg = NoCfg
    /\ trainOutputDir = FALSE
    /\ trainPc = "start"

TrainIdle ==
    /\ valJson = "None"
    /\ valImages = "None"
    /\ configFile = FALSE
    /\ weightsGiven = FALSE
    /\ maxIter = 0
    /\ argsAttrs = {}
    /\ datasetCatalog = {}
    /\ cfg = NoCfg
    /\ trainOutputDir = FALSE
    /\ trainPc = "idle"

\* cfg.DATASETS.TEST after the configuration file is merged (lines 86-94):
\* the value of the file given, or ("coco_2017_val",) of the model-zoo
\* Faster R-CNN configuration.
MergedTest(config_file) ==
    IF config_file THEN << "config_file_test" >> ELSE << "coco_2017_val" >>

\* if args.val_json: (line 98)
BindsValidation(val_json, val_images) == Truthy(val_json)

\* (int(args.max_iter * 0.6), int(args.max_iter * 0.8)), exact for the
\* values of MaxIters.
SolverSteps(max_iter) == <<(max_iter * 6) \div 10, (max_iter * 8) \div 10>>

\* setup_config(args): the configuration, or the exception raised when an
\* attribute of args that was never set is read.
setup_config(attrs, val_json, val_images, config_file, weights, max_iter) ==
    IF BindsValidation(val_json, val_images) /\ "val_dataset_name" \notin attrs
    THEN [outcome |-> "AttributeError", cfg |-> NoCfg]
    ELSE [outcome |-> "returned",
          cfg |-> [TRAIN    |-> << "custom_train" >>,
                   TEST     |-> IF BindsValidation(val_json, val_images)
                                THEN << "custom_val" >>
                                ELSE MergedTest(config_file),
                   WEIGHTS  |-> IF weights THEN "args.weights" ELSE "model_zoo",
                   MAX_ITER |-> max_iter,
                   STEPS    |-> SolverSteps(max_iter)]]

\* Lines 133-140: the training dataset is registered as "custom_train".
RegisterTrainDataset ==
    /\ trainPc = "start"
    /\ argsAttrs' = argsAttrs \cup {"train_dataset_name"}
    /\ datasetCatalog' = datasetCatalog \cup {"custom_train"}
    /\ trainPc' = "train_registered"
    /\ UNCHANGED <<valJson, valImages, configFile, weightsGiven, maxIter, cfg,
                   trainOutputDir>>
    /\ UNCHANGED notTrainVars

\* Lines 143-151: the validation dataset is registered as "custom_val" if
\* both its annotation file and its image root are given.
RegisterValDataset ==
    /\ trainPc = "train_registered"
    /\ IF Truthy(valJson) /\ Truthy(valImages)
       THEN /\ argsAttrs' = argsAttrs \cup {"val_dataset_name"}
            /\ datasetCatalog' = datasetCatalog \cup {"custom_val"}
       ELSE UNCHANGED <<argsAttrs, datasetCatalog>>
    /\ trainPc' = "val_checked"
    /\ UNCHANGED <<valJson, valImages, configFile, weightsGiven, maxIter, cfg,
                   trainOutputDir>>
    /\ UNCHANGED notTrainVars

\* Line 154: cfg = setup_config(args).
SetupConfig ==
    /\ trainPc = "val_checked"
    /\ LET r == setup_config(argsAttrs, valJson, valImages, configFile,
                             weightsGiven, maxIter)
       IN  /\ cfg' = r.cfg
           /\ trainPc' = IF r.outcome = "returned" THEN "configured"
                         ELSE r.outcome
    /\ UNCHANGED <<valJson, valImages, configFile, weightsGiven, maxIter,
                   argsAttrs, datasetCatalog, trainOutputDir>>
    /\ UNCHANGED notTrainVars

\* Lines 157-176: the output directory is created, the trainer is built and
\* run; building it or training may fail inside the library.
RunTrainer(ok) ==
    /\ trainPc = "configured"
    /\ trainOutputDir' = TRUE
    /\ trainPc' = IF ok THEN "trained" ELSE "trainer_raised"
    /\ UNCHANGED <<valJson, valImages, configFile, weightsGiven, maxIter,
                   argsAttrs, datasetCatalog, cfg>>
    /\ UNCHANGED notTrainVars

TrainNext ==
    \/ RegisterTrainDataset
    \/ RegisterValDataset
    \/ SetupConfig
    \/ \E ok \in BOOLEAN : RunTrainer(ok)

(***************************************************************************)
(* link_file: CCNet/utils/pyt_utils.py.                                    *)
(***************************************************************************)

\* Largest number of link_file and ensure_dir calls in one behaviour.
MaxLinkCalls == 2

\* Target paths.
LinkTargets == {"t1", "t2"}

\* Source paths and what each of them is: a regular file, a directory, or
\* nothing (ln -s does not require the source to exist).
LinkSources == {"src_file", "src_dir", "src_missing"}

SourceKind(src) ==
    IF src = "src_file" THEN "file"
    ELSE IF src = "src_dir" THEN "dir"
    ELSE "nothing"

\* What may be at a target path: nothing, a regular file, a directory, or a
\* symbolic link to one of the sources.
Absent == [kind |-> "absent", dest |-> "none"]

LinkTo(src) == [kind |-> "link", dest |-> src]

FsEntries ==
    {Absent, [kind |-> "file", dest |-> "none"], [kind |-> "dir", dest |-> "none"]}
        \cup {LinkTo(src) : src \in LinkSources}

NoLink == [fn |-> "none", src |-> "none", target |-> "none", before |-> Absent,
           outcome |-> "none", lnStatus |-> 0]

LinkInit ==
    /\ linkFs \in [LinkTargets -> FsEntries]
    /\ linkCalls = 0
    /\ lastLink = NoLink

LinkIdle ==
    /\ linkFs = [t \in LinkTargets |-> Absent]
    /\ linkCalls = 0
    /\ lastLink = NoLink

\* os.path.isdir and os.path.isfile follow symbolic links.
IsDir(e) == e.kind = "dir" \/ (e.kind = "link" /\ SourceKind(e.dest) = "dir")

IsFile(e) == e.kind = "file" \/ (e.kind = "link" /\ SourceKind(e.dest) = "file")

\* os.remove(target) raises (IsADirectoryError on Linux) when the target is
\* a directory; it removes a regular file and a symbolic link.
RemoveFails(e) == e.kind = "dir"

\* link_file(src, target) on a file system entry e: the outcome of the
\* call, the exit status of ln, and the entry afterwards.  ln -s fails with
\* "File exists" when something is still at the target path.
link_file(src, e) ==
    IF (IsDir(e) \/ IsFile(e)) /\ RemoveFails(e)
    THEN [outcome |-> "IsADirectoryError", lnStatus |-> 0, after |-> e]
    ELSE LET removed == IF IsDir(e) \/ IsFile(e) THEN Absent ELSE e IN
         IF removed = Absent
         THEN [outcome |-> "returned", lnStatus |-> 0, after |-> LinkTo(src)]
         ELSE [outcome |-> "returned", lnStatus |-> 1, after |-> removed]

\* One call of link_file.
LinkFileCall(src, target) ==
    /\ linkCalls < MaxLinkCalls
    /\ linkCalls' = linkCalls + 1
    /\ LET r == link_file(src, linkFs[target]) IN
       /\ linkFs' = [linkFs EXCEPT ![target] = r.after]
       /\ lastLink' = [fn |-> "link_file", src |-> src, target |-> target,
                       before |-> linkFs[target],
                       outcome |-> r.outcome, lnStatus |-> r.lnStatus]
    /\ UNCHANGED notLinkVars

\* ensure_dir(path) on a file system entry e: nothing is done when the path
\* is a directory or a link to one; otherwise os.makedirs(path) creates the
\* directory when nothing is at the path and raises FileExistsError when a
\* file or a symbolic link is there.
ensure_dir(e) ==
    IF IsDir(e) THEN [outcome |-> "returned", after |-> e]
    ELSE IF e = Absent
         THEN [outcome |-> "returned",
               after |-> [kind |-> "dir", dest |-> "none"]]
         ELSE [outcome |-> "FileExistsError", after |-> e]

\* One call of ensure_dir.
EnsureDirCall(path) ==
    /\ linkCalls < MaxLinkCalls
    /\ linkCalls' = linkCalls + 1
    /\ LET r == ensure_dir(linkFs[path]) IN
       /\ linkFs' = [linkFs EXCEPT ![path] = r.after]
       /\ lastLink' = [fn |-> "ensure_dir", src |-> "none", target |-> path,
                       before |-> linkFs[path],
                       outcome |-> r.outcome, lnStatus |-> 0]
    /\ UNCHANGED notLinkVars

LinkNext ==
    \/ \E src \in LinkSources, target \in LinkTargets : LinkFileCall(src, target)
    \/ \E path \in LinkTargets : EnsureDirCall(path)

(***************************************************************************)
(* reduce_tensor and all_reduce_tensor: CCNet/utils/pyt_utils.py.          *)
(* Every process of the group calls the same function on its own tensor.   *)
(* A tensor is held as the one value of its elements, a fraction; the      *)
(* reduction is the default one, a sum.                                    *)
(***************************************************************************)

\* Number of processes of the group.
MaxRanks == 2

Ranks == 0..(MaxRanks - 1)

\* Values of the callers' tensors: 1.0, 2.0 and float("inf").
TensorValues == {<<1, 1>>, <<2, 1>>, <<1, 0>>}

\* Values of the world_size argument.
WorldSizes == {1, 2}

Unallocated == <<0, 1>>

ReduceInit ==
    /\ reduceFn \in {"reduce_tensor", "all_reduce_tensor"}
    /\ reduceDst \in Ranks
    /\ worldSize \in WorldSizes
    /\ reduceNorm \in BOOLEAN
    /\ argAtCall \in [Ranks -> TensorValues]
    /\ tensors = [r \in Ranks |-> [arg |-> argAtCall[r], clone |-> Unallocated]]
    /\ localRef = [r \in Ranks |-> "arg"]
    /\ contributed = [r \in Ranks |-> Unallocated]
    /\ returnedRef = [r \in Ranks |-> "none"]
    /\ rankPc = [r \in Ranks |-> "start"]

ReduceIdle ==
    /\ reduceFn = "none"
    /\ reduceDst = 0
    /\ worldSize = 0
    /\ reduceNorm = FALSE
    /\ argAtCall = << >>
    /\ tensors = << >>
    /\ localRef = << >>
    /\ contributed = << >>
    /\ returnedRef = << >>
    /\ rankPc = << >>

\* The value of the tensor the local name denotes on rank r.
LocalValue(r) ==
    IF localRef[r] = "arg" THEN tensors[r].arg ELSE tensors[r].clone

\* The tensors after an in-place operation on rank r has given the value v
\* to the tensor the local name denotes.
WriteLocal(r, v) ==
    IF localRef[r] = "arg"
    THEN [tensors EXCEPT ![r].arg = v]
    ELSE [tensors EXCEPT ![r].clone = v]

\* The local name keeps denoting the caller's tensor.
LocalAfterClone_alias(r) == "arg"

\* tensor = tensor.clone(): the local name denotes the clone from then on.
LocalAfterClone(r) == "clone"

\* The sum of the contributions of the ranks of S.
RECURSIVE SumOf(_)
SumOf(S) ==
    IF S = {} THEN <<0, 1>>
    ELSE LET r == CHOOSE x \in S : TRUE IN
         RatAdd(contributed[r], SumOf(S \ {r}))

\* The ranks that have entered the collective.
Joined == {r \in Ranks : rankPc[r] \in {"joined", "reduced", "done"}}

\* Whether rank r divides after the collective: lines 32 and 41.
Divides(r) ==
    IF reduceFn = "reduce_tensor" THEN r = reduceDst ELSE reduceNorm

\* Lines 30 and 39.
CloneTensor(r) ==
    /\ rankPc[r] = "start"
    /\ tensors' = [tensors EXCEPT ![r].clone = tensors[r].arg]
    /\ localRef' = [localRef EXCEPT ![r] = LocalAfterClone(r)]
    /\ rankPc' = [rankPc EXCEPT ![r] = "cloned"]
    /\ UNCHANGED <<reduceFn, reduceDst, worldSize, reduceNorm, argAtCall,
                   contributed, returnedRef>>
    /\ UNCHANGED notReduceVars

\* Lines 31 and 40: the rank enters the collective with its tensor.
JoinCollective(r) ==
    /\ rankPc[r] = "cloned"
    /\ contributed' = [contributed EXCEPT ![r] = LocalValue(r)]
    /\ rankPc' = [rankPc EXCEPT ![r] = "joined"]
    /\ UNCHANGED <<reduceFn, reduceDst, worldSize, reduceNorm, argAtCall,
                   tensors, localRef, returnedRef>>
    /\ UNCHANGED notReduceVars

\* Lines 31 and 40: the collective returns on rank r.  dist.all_reduce
\* leaves the sum of all contributions in the tensor of every rank;
\* dist.reduce leaves it in the tensor of dst, and the tensor of another
\* rank holds its own value or a partial sum, depending on the backend.
CompleteCollective(r, S) ==
    /\ rankPc[r] = "joined"
    /\ r \in S
    /\ S \subseteq Joined
    /\ (reduceFn = "all_reduce_tensor" \/ r = reduceDst) => S = Ranks
    /\ tensors' = WriteLocal(r, SumOf(S))
    /\ rankPc' = [rankPc EXCEPT ![r] = "reduced"]
    /\ UNCHANGED <<reduceFn, reduceDst, worldSize, reduceNorm, argAtCall,
                   localRef, contributed, returnedRef>>
    /\ UNCHANGED notReduceVars

\* Lines 32-35 and 41-44: the division in place and the return.
DivideAndReturn(r) ==
    /\ rankPc[r] = "reduced"
    /\ tensors' = IF Divides(r)
                  THEN WriteLocal(r, RatDiv(LocalValue(r), <<worldSize, 1>>))
                  ELSE tensors
    /\ returnedRef' = [returnedRef EXCEPT ![r] = localRef[r]]
    /\ rankPc' = [rankPc EXCEPT ![r] = "done"]
    /\ UNCHANGED <<reduceFn, reduceDst, worldSize, reduceNorm, argAtCall,
                   localRef, contributed>>
    /\ UNCHANGED notReduceVars

ReduceNext ==
    \E r \in Ranks :
        \/ CloneTensor(r)
        \/ JoinCollective(r)
        \/ \E S \in SUBSET Ranks : CompleteCollective(r, S)
        \/ DivideAndReturn(r)

(***************************************************************************)
(* Specifications: one per program.                                        *)
(***************************************************************************)

\* The runners, the fetchers, load_model and parse_devices are not running.
CoreIdle == RunIdle /\ FetchIdle /\ DlIdle /\ LoadIdle /\ ParseIdle

\* The image helpers, the registration, the sampler and the dehazers are
\* not running.
ImagingIdle ==
    /\ PreIdle /\ LabelIdle /\ PaletteIdle /\ DsIdle /\ SamplerIdle
    /\ DcpIdle /\ FusionIdle /\ DecodeIdle /\ InvIdle

\* The training driver and the small helpers are not running.
UtilIdle == TrainIdle /\ LinkIdle /\ ReduceIdle

InitRunners == RunInit /\ FetchIdle /\ DlIdle /\ LoadIdle /\ ParseIdle /\ ImagingIdle /\ UtilIdle

SpecRunners == InitRunners /\ [][RunNext]_vars

InitSegFetch == FetchInit /\ RunIdle /\ DlIdle /\ LoadIdle /\ ParseIdle /\ ImagingIdle /\ UtilIdle

SpecSegFetch == InitSegFetch /\ [][FetchNext]_vars

InitDetFetch == DlInit /\ RunIdle /\ FetchIdle /\ LoadIdle /\ ParseIdle /\ ImagingIdle /\ UtilIdle

SpecDetFetch == InitDetFetch /\ [][DlNext]_vars

InitLoadModel == LoadInit /\ RunIdle /\ FetchIdle /\ DlIdle /\ ParseIdle /\ ImagingIdle /\ UtilIdle

SpecLoadModel == InitLoadModel /\ [][LoadNext]_vars

InitParseDevices == ParseInit /\ RunIdle /\ FetchIdle /\ DlIdle /\ LoadIdle /\ ImagingIdle /\ UtilIdle

SpecParseDevices == InitParseDevices /\ [][ParseNext]_vars

InitPreprocess ==
    /\ PreInit /\ CoreIdle
    /\ LabelIdle /\ PaletteIdle /\ DsIdle /\ SamplerIdle
    /\ DcpIdle /\ FusionIdle /\ DecodeIdle /\ InvIdle
    /\ UtilIdle

SpecPreprocess == InitPreprocess /\ [][PreNext]_vars

InitLabels ==
    /\ LabelInit /\ CoreIdle
    /\ PreIdle /\ PaletteIdle /\ DsIdle /\ SamplerIdle
    /\ DcpIdle /\ FusionIdle /\ DecodeIdle /\ InvIdle
    /\ UtilIdle

SpecLabels == InitLabels /\ [][LabelNext]_vars

InitPalette ==
    /\ PaletteInit /\ CoreIdle
    /\ PreIdle /\ LabelIdle /\ DsIdle /\ SamplerIdle
    /\ DcpIdle /\ FusionIdle /\ DecodeIdle /\ InvIdle
    /\ UtilIdle

SpecPalette == InitPalette /\ [][PaletteNext]_vars

InitDataset ==
    /\ DsInit /\ CoreIdle
    /\ PreIdle /\ LabelIdle /\ PaletteIdle /\ SamplerIdle
    /\ DcpIdle /\ FusionIdle /\ DecodeIdle /\ InvIdle
    /\ UtilIdle

SpecDataset == InitDataset /\ [][DsNext]_vars

InitSampler ==
    /\ SamplerInit /\ CoreIdle
    /\ PreIdle /\ LabelIdle /\ PaletteIdle /\ DsIdle
    /\ DcpIdle /\ FusionIdle /\ DecodeIdle /\ InvIdle
    /\ UtilIdle

SpecSampler == InitSampler /\ [][SamplerNext]_vars

InitDcp ==
    /\ DcpInit /\ CoreIdle
    /\ PreIdle /\ LabelIdle /\ PaletteIdle /\ DsIdle /\ SamplerIdle
    /\ FusionIdle /\ DecodeIdle /\ InvIdle
    /\ UtilIdle

SpecDcp == InitDcp /\ [][DcpNext]_vars

InitFusion ==
    /\ FusionInit /\ CoreIdle
    /\ PreIdle /\ LabelIdle /\ PaletteIdle /\ DsIdle /\ SamplerIdle
    /\ DcpIdle /\ DecodeIdle /\ InvIdle
    /\ UtilIdle

SpecFusion == InitFusion /\ [][FusionNext]_vars

InitDecode ==
    /\ DecodeInit /\ CoreIdle
    /\ PreIdle /\ LabelIdle /\ PaletteIdle /\ DsIdle /\ SamplerIdle
    /\ DcpIdle /\ FusionIdle /\ InvIdle
    /\ UtilIdle

SpecDecode == InitDecode /\ [][DecodeNext]_vars

InitInvPreprocess ==
    /\ InvInit /\ CoreIdle
    /\ PreIdle /\ LabelIdle /\ PaletteIdle /\ DsIdle /\ SamplerIdle
    /\ DcpIdle /\ FusionIdle /\ DecodeIdle
    /\ UtilIdle

SpecInvPreprocess == InitInvPreprocess /\ [][InvNext]_vars

InitTrain == TrainInit /\ CoreIdle /\ ImagingIdle /\ LinkIdle /\ ReduceIdle

SpecTrain == InitTrain /\ [][TrainNext]_vars

InitLinkFile == LinkInit /\ CoreIdle /\ ImagingIdle /\ TrainIdle /\ ReduceIdle

SpecLinkFile == InitLinkFile /\ [][LinkNext]_vars

InitReduce == ReduceInit /\ CoreIdle /\ ImagingIdle /\ TrainIdle /\ LinkIdle

SpecReduce == InitReduce /\ [][ReduceNext]_vars

(***************************************************************************)
(* Claims about the batch inference runners.                               *)
(***************************************************************************)

\* C1: the output file of an input image at <subdir>/<stem>.<ext> is written
\* under the output directory at the same relative subdirectory.
C1_OutputsMirrorSubdirs ==
    \A f \in written : f.path.dir = PathUniverse[f.src].dir

\* The images of the tree, as the spec names them: files whose extension,
\* case-insensitively, is a supported image extension.
SupportedImages == {i \in tree : Lower(PathUniverse[i].suffix) \in VALID_EXTS}

\* C2: an image that fails to decode never aborts the run: it is skipped with
\* a warning, and a finished run has processed every decodable image.
C2_UnreadableNeverAborts ==
    /\ exitMsg.kind # "unable_to_read"
    /\ pc = "done" => /\ processed = SupportedImages \ unreadable
                      /\ skipped = SupportedImages \cap unreadable

NoWorkDone ==
    /\ ~deviceResolved
    /\ ~datasetRegistered
    /\ ~modelLoaded
    /\ ~outputDirCreated
    /\ written = {}

\* C3: input validation precedes all other work: nothing is resolved, loaded,
\* registered or created while validation is under way, and with an absent
\* image directory or no supported image under it the run can only exit
\* fatally, naming the path, with none of that work done.
C3_ValidationFirst ==
    /\ pc \in {"start", "list"} => NoWorkDone
    /\ (~imageDirExists \/ SupportedImages = {}) =>
          /\ NoWorkDone
          /\ pc \in {"start", "list", "exit"}
          /\ pc = "exit" =>
                /\ exitMsg.path = ImageDir
                /\ exitMsg.kind = IF imageDirExists THEN "no_images"
                                  ELSE "dir_not_found"

\* A detection run over a directory holding only a non-image file has exited.
C3_Witness ==
    /\ runner = "det"
    /\ imageDirExists
    /\ tree # {}
    /\ pc = "exit"
    /\ exitMsg.kind = "no_images"

(***************************************************************************)
(* Claims about the weight fetchers.                                       *)
(***************************************************************************)

\* C4: a run of the segmentation fetcher that finds its target file present
\* and is not forced starts no transfer and leaves every file as it was.
C4_ReuseIsNoOp ==
    [][ ( /\ fetchCalls' = fetchCalls + 1
          /\ ~lastFetch'.force
          /\ weightsDisk[OutputFile(lastFetch'.dir, lastFetch'.model)] # 0 )
        => ( /\ transfers' = transfers
             /\ weightsDisk' = weightsDisk
             /\ lastFetch'.outcome = "reused" ) ]_vars

\* A third run reuses a file that an earlier run downloaded.
C4_Witness ==
    /\ fetchCalls = 3
    /\ transfers = 1
    /\ lastFetch.outcome = "reused"
    /\ weightsDisk[OutputFile(lastFetch.dir, lastFetch.model)] = 1

\* C5: every failure of a download_model call is caught inside it: the error
\* is printed and the call returns None; no exception leaves the call, and a
\* path is returned only by a call in which nothing failed.
C5_FailuresReturnNone ==
    dlCalls > 0 =>
        /\ lastDl.result # "raised"
        /\ lastDl.failure # "none" =>
              lastDl.result = "None" /\ lastDl.errorPrinted
        /\ lastDl.result = "path" => lastDl.failure = "none"

\* A call whose transfer broke part-way has returned None.
C5_Witness ==
    /\ lastDl.failure = "transfer_partial"
    /\ lastDl.result = "None"
    /\ cacheFiles[lastDl.model] = "partial"

(***************************************************************************)
(* Claims about load_model.                                                *)
(***************************************************************************)

\* C6: loading the same checkpoint into fresh models gives every time the
\* same remapped keys, installed parameters and missing/unexpected reports,
\* and at every step of every load the caller's checkpoint, its top-level
\* mapping and the mapping nested under "model", is as the caller made it.
C6_LoadIdempotent ==
    /\ \A m, n \in 1..Len(loadResults) : loadResults[m] = loadResults[n]
    /\ ckptSource.top = TopLevel(ckptAtStart)
    /\ ckptAtStart.wrapped => ckptSource.nested = ckptAtStart.entries

\* Two loads of a mapping held in memory were made with is_restore, and
\* they installed a parameter and reported a missing key.
C6_Witness ==
    /\ Len(loadResults) = 2
    /\ ckptAtStart.kind = "mapping"
    /\ isRestore
    /\ loadResults[2].outcome = "returned"
    /\ loadResults[2].installed # EmptyMap
    /\ loadResults[2].missing # {}

\* C7: a load always completes and returns the model, and every key of the
\* remapped checkpoint that does not resolve to a model key of equal shape is
\* in the missing-key or the unexpected-key report.
C7_MismatchReportedNeverFatal ==
    \A n \in 1..Len(loadResults) :
        LET r == loadResults[n] IN
        /\ r.outcome = "returned"
        /\ \A k \in DOMAIN r.remapped :
              ~(k \in DOMAIN modelState /\ modelState[k] = r.remapped[k].shape)
                 => k \in r.missing \cup r.unexpected

NestedKeys == {ckptAtStart.entries[i].key : i \in 1..Len(ckptAtStart.entries)}

\* C8 (as claimed): for a path and for a mapping alike, a checkpoint wrapped
\* under "model" is matched by the keys of the nested mapping.
C8_UnwrapsBothKinds ==
    \A n \in 1..Len(loadResults) :
        ckptAtStart.wrapped => loadResults[n].sourceKeys = NestedKeys

\* C8 (amended): a checkpoint file wrapped under "model" is matched by the
\* keys of the nested mapping; an in-memory mapping is matched by its own
\* top-level keys, "model" included.
C8_UnwrapsPathOnly ==
    \A n \in 1..Len(loadResults) :
        /\ ckptAtStart.kind = "path" /\ ckptAtStart.wrapped
              => loadResults[n].sourceKeys = NestedKeys
        /\ ckptAtStart.kind = "mapping" /\ ckptAtStart.wrapped
              => loadResults[n].sourceKeys = {<< "model" >>}
        /\ ~ckptAtStart.wrapped => loadResults[n].sourceKeys = NestedKeys

\* A wrapped checkpoint file was loaded and a parameter of it installed.
C8_Witness ==
    /\ Len(loadResults) >= 1
    /\ ckptAtStart.kind = "path"
    /\ ckptAtStart.wrapped
    /\ loadResults[1].installed # EmptyMap

(***************************************************************************)
(* Claims about parse_devices.                                             *)
(***************************************************************************)

\* Decimal numerals over DigitChars, with their values.
Numerals ==
    { <<c>> : c \in DigitChars } \cup
    { <<c, d>> : c \in DigitChars \ {"0"}, d \in DigitChars }

NumeralValue(num) ==
    IF Len(num) = 1 THEN DigitValue(num[1])
    ELSE 10 * DigitValue(num[1]) + DigitValue(num[2])

\* C9: on "a-b" with a < b < N the call returns [a, a+1, ..., b]; with b >= N
\* it fails with an assertion error and returns no list.
C9_RangeParsed ==
    parsed # NotParsed =>
        \A sa, sb \in Numerals :
            inputDevices = sa \o << "-" >> \o sb =>
                LET a == NumeralValue(sa)
                    b == NumeralValue(sb)
                IN  /\ a < b /\ b < deviceCount =>
                          /\ parsed.outcome = "returned"
                          /\ Len(parsed.devices) = b - a + 1
                          /\ \A i \in 1..(b - a + 1) : parsed.devices[i] = a + i - 1
                    /\ b >= deviceCount =>
                          /\ parsed.outcome = "AssertionError"
                          /\ parsed.devices = << >>

\* "0-2" with 4 devices was parsed to [0, 1, 2].
C9_Witness ==
    /\ inputDevices = << "0", "-", "2" >>
    /\ deviceCount = 4
    /\ parsed.outcome = "returned"
    /\ parsed.devices = << 0, 1, 2 >>

\* A non-empty string of digits: an integer.
IsInteger(d) == d # << >> /\ \A i \in 1..Len(d) : d[i] \in DigitChars

\* An item the claim accepts: an integer below the device count, or a range
\* of exactly two integers a-b (one hyphen) with a < b < device count.
WellFormedItem(d, count) ==
    \/ IsInteger(d) /\ IntOf(d) < count
    \/ \E h \in 1..Len(d) :
          LET sa == SubSeq(d, 1, h - 1)
              sb == SubSeq(d, h + 1, Len(d))
          IN  /\ d[h] = "-"
              /\ IsInteger(sa)
              /\ IsInteger(sb)
              /\ IntOf(sa) < IntOf(sb)
              /\ IntOf(sb) < count

\* C10: a specification of non-empty items made of digits and hyphens (so
\* not ending in '*') with an item that is not well formed fails with an
\* assertion error and returns no device list.
C10_MalformedRejected ==
    ( /\ parsed # NotParsed
      /\ ~(inputDevices # << >> /\ inputDevices[Len(inputDevices)] = "*")
      /\ \A i \in 1..Len(inputDevices) : inputDevices[i] \in DigitChars \cup {"-", ","}
      /\ \A i \in 1..Len(Split(inputDevices, ",")) :
            Split(inputDevices, ",")[i] # << >>
      /\ \E i \in 1..Len(Split(inputDevices, ",")) :
            ~WellFormedItem(Split(inputDevices, ",")[i], deviceCount) )
    => /\ parsed.outcome = "AssertionError"
       /\ parsed.devices = << >>

(***************************************************************************)
(* Claims about preprocess_image.                                          *)
(***************************************************************************)

\* C11: for every positive long_side T and image with longer edge L, the call
\* returns; if L > T the longer edge of the resized image is exactly T; if
\* L <= T the image is not resized and scale stays 1.0; if T <= 0 the image
\* is not resized.
C11_ResizePolicy ==
    (preprocessed # NotPreprocessed /\ rawShape # << >>) =>
        LET L == MaxOf(rawShape[1], rawShape[2]) IN
        /\ preprocessed.outcome = "returned"
        /\ (longSide > 0 /\ L > longSide) =>
               MaxOf(preprocessed.size[1], preprocessed.size[2]) = longSide
        /\ (longSide > 0 /\ L <= longSide) =>
               preprocessed.size = rawShape /\ preprocessed.scale = <<1, 1>>
        /\ longSide <= 0 =>
               preprocessed.size = rawShape /\ preprocessed.scale = <<1, 1>>

(***************************************************************************)
(* Claims about add_labels_to_image.                                       *)
(***************************************************************************)

\* Two positions are at Euclidean distance of at least num / den pixels.
AtLeastApart(p, q, num, den) == DistanceSquared(p, q) * den * den >= num * num

\* C12 (as stated): every two labels placed by one call are at distance of at
\* least max(60, 80 * w / 1024) pixels, the quotient taken as a real number
\* (80 / 1024 = 5 / 64).
C12_LabelsApartReal ==
    \A i, j \in 1..Len(labelPositions) :
        i # j =>
            /\ AtLeastApart(labelPositions[i], labelPositions[j], 60, 1)
            /\ AtLeastApart(labelPositions[i], labelPositions[j], 5 * imgWidth, 64)

\* C12 (amended): every two labels placed by one call are at distance of at
\* least max(60, floor(80 * w / 1024)) pixels, whatever their classes.
C12_LabelsApartTruncated ==
    \A i, j \in 1..Len(labelPositions) :
        i # j =>
            /\ AtLeastApart(labelPositions[i], labelPositions[j], 60, 1)
            /\ AtLeastApart(labelPositions[i], labelPositions[j],
                            (80 * imgWidth) \div 1024, 1)

\* Two labels were placed on a wide image, and a component was rejected for
\* being closer than 78 pixels (but not closer than 60) to one of them.
C12_Witness ==
    /\ labelPc = "done"
    /\ imgWidth = 1000
    /\ Len(labelPositions) = 2
    /\ \E i \in 1..Len(regions) :
           /\ regions[i].size >= minRegionSize
           /\ regions[i].class < numClassNames
           /\ \A k \in 1..Len(labelPositions) : regions[i].pos # labelPositions[k]
           /\ \E k \in 1..Len(labelPositions) :
                  /\ AtLeastApart(regions[i].pos, labelPositions[k], 60, 1)
                  /\ ~AtLeastApart(regions[i].pos, labelPositions[k], 78, 1)

(***************************************************************************)
(* Claims about build_palette and colorize_mask.                           *)
(***************************************************************************)

\* The pixels of the mask whose class index is below num_classes.
InRangePixels == {i \in 1..Len(maskPixels) : maskPixels[i] < paletteClasses}

\* Every in-range pixel shows the triple the palette holds for its class
\* index, which is the colour of the fixed table or, past the table, zero.
ShowsPaletteTriple ==
    \A i \in InRangePixels :
        LET c == maskPixels[i] IN
        /\ rendered[i] = <<palette[3 * c + 1], palette[3 * c + 2], palette[3 * c + 3]>>
        /\ rendered[i] = IF c < Len(CITYSCAPES_COLORS)
                         THEN CITYSCAPES_COLORS[c + 1] ELSE <<0, 0, 0>>

\* No two in-range pixels of different classes show the same colour.
DistinctClassesDistinctColours ==
    \A i, j \in InRangePixels :
        maskPixels[i] # maskPixels[j] => rendered[i] # rendered[j]

\* C13 (as stated): for every num_classes, every pixel labeled c < num_classes
\* is rendered with the c-th triple of build_palette(num_classes), and two
\* distinct class indices below num_classes never render as the same colour.
C13_ColoursBijective ==
    palettePc = "done" => ShowsPaletteTriple /\ DistinctClassesDistinctColours

\* Every in-range pixel of a class past the table shows black.
PastTableIsBlack ==
    \A i \in InRangePixels :
        maskPixels[i] >= Len(CITYSCAPES_COLORS) => rendered[i] = <<0, 0, 0>>

\* C13 (amended): for every num_classes every pixel labeled c < num_classes
\* is rendered with the c-th triple of the palette; for num_classes up to 20
\* (the 19 colours of the table and one zero entry) distinct classes show
\* distinct colours, and for num_classes of 21 or more the classes 19, 20,
\* ... all show black.
C13_ColoursBijectiveUpTo20 ==
    palettePc = "done" =>
        /\ ShowsPaletteTriple
        /\ paletteClasses <= Len(CITYSCAPES_COLORS) + 1 =>
               DistinctClassesDistinctColours
        /\ paletteClasses >= Len(CITYSCAPES_COLORS) + 2 => PastTableIsBlack

\* A mask holding the last class of the table and the class after it has
\* been colorized with num_classes = 20.
C13_Witness ==
    /\ palettePc = "done"
    /\ paletteClasses = 20
    /\ maskPixels = <<18, 19>>
    /\ rendered = << <<119, 11, 32>>, <<0, 0, 0>> >>

(***************************************************************************)
(* Claims about register_image_folder_dataset.                             *)
(***************************************************************************)

\* The files of the directory with a supported image extension.
DsSupported == {i \in dsTree : Lower(PathUniverse[i].suffix) \in VALID_EXTS}

\* C14: on an absent directory or one with no file of a supported extension
\* the registration fails with a validation error and registers nothing;
\* otherwise it registers the name, and the materialized dataset has exactly
\* one record per image file that decodes.
C14_RegistrationAndRecords ==
    /\ (dsPc # "start" /\ (~dsDirExists \/ DsSupported = {})) =>
           dsPc = "ValueError" /\ DOMAIN catalog = {}
    /\ (dsPc # "start" /\ dsDirExists /\ DsSupported # {}) =>
           dsPc \in {"registered", "materialized"} /\ DOMAIN catalog = {dsName}
    /\ dsPc = "materialized" =>
           /\ Len(dsRecords) = Cardinality(DsSupported \ dsUnreadable)
           /\ {dsRecords[k].file_name : k \in 1..Len(dsRecords)} =
                  DsSupported \ dsUnreadable

\* One readable image and one corrupt image file gave exactly one record.
C14_Witness ==
    /\ dsPc = "materialized"
    /\ Cardinality(DsSupported) = 2
    /\ Cardinality(dsUnreadable) = 1
    /\ Len(dsRecords) = 1

\* C15: no two records of the materialized dataset have the same image_id.
C15_UniqueImageIds ==
    \A i, j \in 1..Len(dsRecords) :
        i # j => dsRecords[i].image_id # dsRecords[j].image_id

(***************************************************************************)
(* Claims about extract_frames.                                            *)
(***************************************************************************)

\* floor(fps * intervalSeconds)
FloorInterval == (videoFps * intervalSec) \div 10

\* The multiples of F below n, in increasing order.
MultiplesBelow(F, n) == [k \in 1..((n + F - 1) \div F) |-> (k - 1) * F]

\* C16: with F = floor(fps * intervalSeconds) >= 1, the frames saved are exactly
\* those whose index is a multiple of F, in order, named by the consecutive
\* zero-padded counters 0, 1, 2, ..., the counter moving only on a save.
C16_EveryFthFrameSaved ==
    (samplerPc \in {"loop", "done"} /\ FloorInterval >= 1) =>
        /\ savedCount = Len(savedFrames)
        /\ [k \in 1..Len(savedFrames) |-> savedFrames[k].frame] =
               MultiplesBelow(FloorInterval, frameCount)
        /\ \A k \in 1..Len(savedFrames) :
               savedFrames[k].name = <<0, 0, 0, 0, k - 1>>
        /\ samplerPc = "done" => frameCount = videoFrames

\* A video of exactly 3F frames (F = 2) has been sampled: three frames were
\* saved, at indices 0, 2 and 4.
C16_Witness ==
    /\ samplerPc = "done"
    /\ FloorInterval = 2
    /\ videoFrames = 6
    /\ savedFrames = << [name |-> <<0, 0, 0, 0, 0>>, frame |-> 0],
                        [name |-> <<0, 0, 0, 0, 1>>, frame |-> 2],
                        [name |-> <<0, 0, 0, 0, 2>>, frame |-> 4] >>

(***************************************************************************)
(* Claims about DarkChannelPrior.dehaze.                                   *)
(***************************************************************************)

\* "Approximately": within one hundredth for a real number, within one level
\* for a byte.
Near(a, b) ==
    /\ IsFinite(a)
    /\ LET d == RatSub(a, b) IN Abs(d[1]) * 100 <= d[2]

NearByte(x, y) == Abs(x - y) <= 1

\* The atmospheric light is the (normalized) pixel value, up to the rounding
\* of the sum of line 70.
LightIsPixelValue == RatMul(atmLight.val, <<MaxByte, 1>>) = <<grayValue, 1>>

\* C17: on a uniform image dehaze returns an image approximately equal to
\* the input, the atmospheric light equals the pixel value and the refined
\* transmission is approximately 1.
C17_UniformTransmissionOne ==
    dcpPc = "done" =>
        /\ NearByte(recovered, grayValue)
        /\ LightIsPixelValue
        /\ Near(transmission, <<1, 1>>)

(***************************************************************************)
(* Claims about the fusion of KimDefogPipeline.dehaze.                     *)
(***************************************************************************)

\* C18: with fusionWeight = 1.0 the fused channel equals the CLAHE result
\* pixel for pixel, and with fusionWeight = 0.0 it equals the wavelet result,
\* cropped to the shape of the channel, pixel for pixel.
C18_FusionEndpoints ==
    vFused # << >> =>
        /\ fusionWeight = 4 => vFused = vClahe
        /\ fusionWeight = 0 => vFused = [k \in 1..vLength |-> vDwt[k]]

\* A row of odd length whose two branches differ in every pixel has been
\* fused with weight 1.0: the result is the CLAHE row, the wavelet row
\* having been cropped.
C18_Witness ==
    /\ fusionWeight = 4
    /\ vLength = 1
    /\ Len(vDwt) = 2
    /\ vClahe = <<100>>
    /\ vDwt = <<255, 0>>
    /\ vFused = <<100>>

(***************************************************************************)
(* Claims about decode_labels, decode_predictions and inv_preprocess.      *)
(***************************************************************************)

\* C19: with at least num_images masks in the batch the call returns one
\* image per decoded mask, a pixel of class k >= num_classes being left
\* (0, 0, 0) and a pixel of class k < num_classes showing the k-th entry of
\* the 21-entry colour table; with fewer masks the call fails on its
\* assertion.
C19_DecodeRendersTable ==
    decoded # NotDecoded =>
        IF Len(maskBatch) < decodeImages
        THEN decoded.outcome = "AssertionError"
        ELSE /\ decoded.outcome = "returned"
             /\ Len(decoded.images) = decodeImages
             /\ \A i \in 1..decodeImages : \A p \in 1..Len(maskBatch[i]) :
                    LET k == maskBatch[i][p] IN
                    /\ k >= decodeClasses => decoded.images[i][p] = <<0, 0, 0>>
                    /\ (k < decodeClasses /\ k <= 20) =>
                           decoded.images[i][p] = label_colours[k + 1]

\* min(255, max(0, x)) of the integer part of a number of halves.
ClampedByte(x) ==
    LET t == IF x >= 0 THEN x \div 2 ELSE -((-x) \div 2)
    IN  IF t < 0 THEN 0 ELSE IF t > 255 THEN 255 ELSE t

\* C20: for every channel value x and mean m the output byte is
\* min(255, max(0, x + m)) after truncation to an integer: a sum above 255
\* gives 255 and a sum below 0 gives 0.
C20_InvPreprocessClamps ==
    (restored # NotRestored /\ Len(imgsBatch) >= invImages) =>
        /\ restored.outcome = "returned"
        /\ Len(restored.images) = invImages
        /\ \A i \in 1..invImages : \A c \in 1..Len(imgMean) :
               restored.images[i][c] = ClampedByte(imgsBatch[i][c] + imgMean[c])


(***************************************************************************)
(* Claims about the key remapping and the key reports of load_model.       *)
(***************************************************************************)

\* The mapping the remapping loop iterates over.
LoopStateDict ==
    RestoreKeys(IF ckptAtStart.kind = "path" THEN ckptAtStart.entries
                ELSE TopLevel(ckptAtStart), isRestore)

\* The scan of the segments from position i on: the rewrite of the first
\* position that qualifies, or the key itself.
RECURSIVE FirstRewrite(_, _, _, _)
FirstRewrite(ms, parts, shape, i) ==
    IF i >= Len(parts) THEN parts
    ELSE IF /\ parts[i] \in BnNames \/ IsDigit(parts[i])
            /\ parts[i + 1] \in BnParams
            /\ Resolves(ms, InsertZero(parts, i), shape)
         THEN InsertZero(parts, i)
         ELSE FirstRewrite(ms, parts, shape, i + 1)

\* C23: every checkpoint key present in the model with equal shape is stored
\* under itself; every other key is stored under its first rewrite, scanning
\* the segments left to right, that inserts "0" after a bn1/bn2/bn3 or numeric
\* segment directly followed by a BatchNorm parameter name and that exists in
\* the model with equal shape, and under itself if there is none.
C23_FirstResolvingRewrite ==
    \A n \in 1..Len(loadResults) :
        LET r  == loadResults[n]
            sd == LoopStateDict
        IN  /\ Len(r.storedAs) = Len(sd)
            /\ \A i \in 1..Len(sd) :
                  r.storedAs[i] =
                      IF Resolves(modelState, sd[i].key, sd[i].shape)
                      THEN sd[i].key
                      ELSE FirstRewrite(modelState, sd[i].key, sd[i].shape, 1)

\* A checkpoint was loaded in which one key has two resolving rewrites and
\* was stored under the leftmost, and another key, present in the model
\* beside its rewrite, was stored under itself.
C23_Witness ==
    /\ Len(loadResults) >= 1
    /\ modelState = MixedModel
    /\ ~isRestore
    /\ \E i, j \in 1..Len(LoopStateDict) :
          /\ LoopStateDict[i].key = << "bn1", "bias", "0", "weight" >>
          /\ LoopStateDict[i].shape = 2
          /\ loadResults[1].storedAs[i] = << "bn1", "0", "bias", "0", "weight" >>
          /\ LoopStateDict[j].key = << "bn1", "weight" >>
          /\ LoopStateDict[j].shape = 1
          /\ loadResults[1].storedAs[j] = << "bn1", "weight" >>

\* C24: every load returns the model; its missing-key report is exactly the
\* set of model keys absent from the remapped checkpoint keys whose name does
\* not contain "num_batches_tracked", and its unexpected-key report is
\* exactly the set of remapped checkpoint keys absent from the model.
C24_KeyReports ==
    \A n \in 1..Len(loadResults) :
        LET r == loadResults[n] IN
        /\ r.outcome = "returned"
        /\ r.missing = {k \in DOMAIN modelState \ DOMAIN r.remapped :
                           ~HasNumBatchesTracked(k)}
        /\ r.unexpected = DOMAIN r.remapped \ DOMAIN modelState

\* C30: distinct checkpoint keys are stored under distinct keys, so the
\* remapped mapping has as many entries as the checkpoint.
C30_RemapInjective ==
    \A n \in 1..Len(loadResults) :
        LET r == loadResults[n] IN
        /\ \A i, j \in 1..Len(r.storedAs) :
              i # j => r.storedAs[i] # r.storedAs[j]
        /\ Cardinality(DOMAIN r.remapped) = Len(LoopStateDict)

(***************************************************************************)
(* Claim about the cache of the detection weight fetcher across calls.     *)
(***************************************************************************)

\* C27: a download_model call that reports the model as already downloaded
\* and returns its path without transferring finds in the cache a file
\* whose transfer completed; a file left by a failed transfer is never
\* reused.
C27_ReuseOnlyCompleteFiles ==
    (lastDl.result = "path" /\ ~lastDl.transferred)
        => cacheFiles[lastDl.model] = "complete"

(***************************************************************************)
(* Claim about which components add_labels_to_image labels.                *)
(***************************************************************************)

\* Component a does not come after component b in the order of
\* consideration: ascending class index, descending area within a class.
InConsiderationOrder(a, b) ==
    a.class < b.class \/ (a.class = b.class /\ a.size >= b.size)

\* The number of positions of the sequence q holding the value x.
Occurrences(q, x) == Cardinality({i \in 1..Len(q) : q[i] = x})

\* The components of the class of d that are strictly larger than d.
LargerOfSameClass(d) ==
    {i \in 1..Len(regions) :
        regions[i].class = d.class /\ regions[i].size > d.size}

\* Position p is closer than max(60, floor(80 * w / 1024)) to a drawn label.
NearDrawnLabel(p) ==
    \E k \in 1..Len(drawnLabels) :
        \/ ~AtLeastApart(p, drawnLabels[k].pos, 60, 1)
        \/ ~AtLeastApart(p, drawnLabels[k].pos, (80 * imgWidth) \div 1024, 1)

\* The labels drawn so far respect the bounds of the selection.  The cap is
\* stated for the classes that have a label: a class without one has zero
\* labels, which is within every cap that is a count.
LabelSelectionBounds ==
    /\ \A i \in 1..Len(drawnLabels) :
          LET d == drawnLabels[i] IN
          /\ Cardinality({k \in 1..Len(drawnLabels) :
                              drawnLabels[k].class = d.class}) <= maxLabels
          /\ Occurrences(drawnLabels, d) <= Occurrences(regions, d)
          /\ d.class < numClassNames
          /\ d.size >= minRegionSize
          /\ Cardinality(LargerOfSameClass(d)) < maxLabels
    /\ \A i, j \in 1..Len(candidates) :
          i < j => InConsiderationOrder(candidates[i], candidates[j])
    /\ \A i, j \in 1..Len(drawnLabels) :
          i < j => InConsiderationOrder(drawnLabels[i], drawnLabels[j])
    /\ \A i \in 1..Len(drawnLabels), j \in 1..Len(candidates) :
          InConsiderationOrder(drawnLabels[i], candidates[j])

\* One pass over the next candidate: it is rejected if it is too small or
\* too close to a label drawn before it, and labelled otherwise.
CandidateDecidedByEarlierLabels ==
    (labelPc = "loop" /\ candidates # << >> /\ candidates' = Tail(candidates))
        => LET r == Head(candidates) IN
           drawnLabels' =
               IF r.size < minRegionSize \/ NearDrawnLabel(r.pos)
               THEN drawnLabels
               ELSE Append(drawnLabels, r)

\* C25: at most max_labels_per_class labels are drawn for a class; every
\* labelled region is a component of its class of area >= min_region_size
\* among the max_labels_per_class largest of the class; candidates are
\* considered by ascending class index and descending area, and a candidate
\* of sufficient area is rejected only for being too close to a label drawn
\* earlier in that order.
C25_LabelSelectionBounds ==
    [][LabelSelectionBounds' /\ CandidateDecidedByEarlierLabels]_vars

(***************************************************************************)
(* Claims about the capture handle and the frame interval of               *)
(* extract_frames.                                                         *)
(***************************************************************************)

\* The positions at which a call of extract_frames has ended.
SamplerEnded ==
    samplerPc \in {"done", "RuntimeError_open", "RuntimeError_fps",
                   "ZeroDivisionError"}

\* C26: a call of extract_frames that has ended, by the end of the stream or
\* by a fatal failure, has released the capture it acquired, and frames are
\* only read while the capture is held.
C26_CaptureReleasedOnEveryExit ==
    /\ SamplerEnded => ~capOpen
    /\ samplerPc = "loop" => capOpen

\* C29: once the open check and the zero-fps check have passed, the frame
\* interval is at least 1 whenever a frame is about to be tested against it,
\* and the read loop never fails with a division by zero.
C29_FrameIntervalUsable ==
    /\ (samplerPc = "loop" /\ frameCount < videoFrames)
          => FrameInterval(videoFps, intervalSec) >= 1
    /\ samplerPc # "ZeroDivisionError"

(***************************************************************************)
(* Claim about the validation binding of the training driver.              *)
(***************************************************************************)

\* C28: configuration building completes whatever validation arguments are
\* given, and once it has, the test dataset of the configuration is
\* "custom_val" if and only if the validation dataset was registered.
C28_ValidationBinding ==
    /\ trainPc # "AttributeError"
    /\ trainPc \in {"configured", "trained", "trainer_raised"}
          => (cfg.TEST = << "custom_val" >> <=> "custom_val" \in datasetCatalog)

(***************************************************************************)
(* Claim about link_file.                                                  *)
(***************************************************************************)

\* C22: a link_file call whose target was a regular file or a directory
\* returns, and afterwards the target is a symbolic link to src.
C22_ReplacesFileOrDirectory ==
    (lastLink.fn = "link_file" /\ lastLink.before.kind \in {"file", "dir"})
        => /\ lastLink.outcome = "returned"
           /\ linkFs[lastLink.target] = LinkTo(lastLink.src)

(***************************************************************************)
(* Claim about reduce_tensor and all_reduce_tensor.                        *)
(***************************************************************************)

\* The sum of the callers' tensors over the ranks of S.
RECURSIVE SumOfArgs(_)
SumOfArgs(S) ==
    IF S = {} THEN <<0, 1>>
    ELSE LET r == CHOOSE x \in S : TRUE IN
         RatAdd(argAtCall[r], SumOfArgs(S \ {r}))

\* C21: on every rank and at every point of every interleaving the caller's
\* tensor holds the value it had when the call began; the tensor returned
\* is the clone, and it is the clone that holds the reduced value, divided
\* by world_size where the function divides.
C21_CallerTensorUntouched ==
    \A r \in DOMAIN rankPc :
        /\ tensors[r].arg = argAtCall[r]
        /\ rankPc[r] = "done" =>
              /\ returnedRef[r] = "clone"
              /\ (reduceFn = "all_reduce_tensor" \/ r = reduceDst) =>
                    tensors[r].clone =
                        IF Divides(r)
                        THEN RatDiv(SumOfArgs(Ranks), <<worldSize, 1>>)
                        ELSE SumOfArgs(Ranks)

\* reduce_tensor has returned on every rank with world_size = 2: the clone
\* of the destination rank holds the mean 3/2 of the tensors 1 and 2, and
\* the callers' tensors still hold 1 and 2.
C21_Witness ==
    /\ reduceFn = "reduce_tensor"
    /\ worldSize = 2
    /\ reduceDst = 0
    /\ \A r \in DOMAIN rankPc : rankPc[r] = "done"
    /\ tensors[0].arg = <<1, 1>>
    /\ tensors[1].arg = <<2, 1>>
    /\ tensors[0].clone = <<3, 2>>

=========================================================================
